---- MODULE Spec2Model ----
(***************************************************************************)
(* mealbot: grocery-list aggregation (grocery/aggregator.py) and per-day   *)
(* nutrition validation (planner/nutrition.py).                            *)
(*                                                                         *)
(* Strings are sequences of one-character strings, so that lower(),        *)
(* strip(), the substring test and the code-point order of Python's str    *)
(* are computed rather than assumed.  Numbers (quantities, macros) are     *)
(* exact rationals [num, den] with den > 0 in lowest terms.                *)
(***************************************************************************)
EXTENDS Integers, Sequences, FiniteSets, TLC

\* call: the last invocation (operation and arguments); ret: what it returned.
VARIABLES call, ret

vars == <<call, ret>>

(***************************************************************************)
(* Bounds of the model.                                                    *)
(***************************************************************************)
MaxSlots == 2

Portions == {1, 2}

Days == {"lundi", "mardi"}

DaySelectors == Days \cup {"lundii"}

(***************************************************************************)
(* Python values: None / Optional, str, float.                             *)
(* Python evaluates the arguments of a call once, before the call: where   *)
(* an operator uses an argument several times, the argument is bound once  *)
(* as the member of a singleton.                                           *)
(***************************************************************************)
\* The value of an expression, evaluated once: the member of a singleton.
The(S) == CHOOSE v \in S : TRUE

None == <<>>

Some(v) == <<v>>

IsNone(o) == Len(o) = 0

Get(o) == o[1]

\* Characters in ascending code-point order (str comparison is by code point).
CodePoints ==
    <<"\t", "\n", " ", "'",
      "A", "B", "C", "D", "E", "F", "G", "H", "I", "J", "K", "L", "M",
      "N", "O", "P", "Q", "R", "S", "T", "U", "V", "W", "X", "Y", "Z",
      "a", "b", "c", "d", "e", "f", "g", "h", "i", "j", "k", "l", "m",
      "n", "o", "p", "q", "r", "s", "t", "u", "v", "w", "x", "y", "z",
      "É", "é">>

Ord(c) == CHOOSE i \in DOMAIN CodePoints : CodePoints[i] = c

Whitespace == {"\t", "\n", " "}

\* str.lower() on one character: A..Z and É map 26 resp. 1 places up.
CharLower(c) ==
    IF Ord(c) \in Ord("A")..Ord("Z") THEN CodePoints[Ord(c) + 26]
    ELSE IF c = "É" THEN "é"
    ELSE c

StrLower(s) == [i \in DOMAIN s |-> CharLower(s[i])]

RECURSIVE LStrip(_)
LStrip(s) ==
    The({ IF t # <<>> /\ Head(t) \in Whitespace THEN LStrip(Tail(t)) ELSE t :
              t \in {s} })

RECURSIVE RStrip(_)
RStrip(s) ==
    The({ IF t # <<>> /\ t[Len(t)] \in Whitespace
          THEN RStrip(SubSeq(t, 1, Len(t) - 1))
          ELSE t : t \in {s} })

StrStrip(s) == RStrip(LStrip(s))

\* a in b (Python substring test); the empty string is in every string.
StrIn(a, b) ==
    \E x \in {a}, y \in {b} :
        \E i \in 0..(Len(y) - Len(x)) : SubSeq(y, i + 1, i + Len(x)) = x

\* a < b on str: lexicographic by code point, a proper prefix is smaller.
RECURSIVE StrLess(_, _)
StrLess(a, b) ==
    \E x \in {a}, y \in {b} :
        IF y = <<>> THEN FALSE
        ELSE IF x = <<>> THEN TRUE
        ELSE IF Head(x) # Head(y) THEN Ord(Head(x)) < Ord(Head(y))
        ELSE StrLess(Tail(x), Tail(y))

RECURSIVE Gcd(_, _)
Gcd(a, b) ==
    The({ IF y = 0 THEN x ELSE Gcd(y, x % y) : x \in {a}, y \in {b} })

Abs(n) == IF n < 0 THEN -n ELSE n

\* The rational n/d (d # 0) in lowest terms with a positive denominator.
Rat(n, d) ==
    The({ [num |-> (s * n) \div g, den |-> (s * d) \div g] :
              g \in {Gcd(Abs(n), Abs(d))}, s \in {IF d < 0 THEN -1 ELSE 1} })

Int2Rat(n) == Rat(n, 1)

RatAdd(a, b) ==
    The({ Rat(x.num * y.den + y.num * x.den, x.den * y.den) :
              x \in {a}, y \in {b} })

RatSub(a, b) ==
    The({ Rat(x.num * y.den - y.num * x.den, x.den * y.den) :
              x \in {a}, y \in {b} })

RatMul(a, b) ==
    The({ Rat(x.num * y.num, x.den * y.den) : x \in {a}, y \in {b} })

RatLeq(a, b) ==
    \E x \in {a}, y \in {b} : x.num * y.den <= y.num * x.den

RatLess(a, b) ==
    \E x \in {a}, y \in {b} : x.num * y.den < y.num * x.den

RatMax(a, b) ==
    The({ IF RatLeq(x, y) THEN y ELSE x : x \in {a}, y \in {b} })

(***************************************************************************)
(* grocery/aggregator.py                                                   *)
(***************************************************************************)
\* IngredientCategory: the members, by name, in definition order.
IngredientCategory ==
    <<"LEGUMES", "FRUITS", "PROTEINES", "EPICERIE", "FRAIS", "SURGELES",
      "BOISSONS", "AUTRE">>

\* IngredientCategory.<member>.value
CategoryValue(category) ==
    CASE category = "LEGUMES" -> <<"l", "e", "g", "u", "m", "e", "s">>
      [] category = "FRUITS" -> <<"f", "r", "u", "i", "t", "s">>
      [] category = "PROTEINES" -> <<"p", "r", "o", "t", "e", "i", "n", "e", "s">>
      [] category = "EPICERIE" -> <<"e", "p", "i", "c", "e", "r", "i", "e">>
      [] category = "FRAIS" -> <<"f", "r", "a", "i", "s">>
      [] category = "SURGELES" -> <<"s", "u", "r", "g", "e", "l", "e", "s">>
      [] category = "BOISSONS" -> <<"b", "o", "i", "s", "s", "o", "n", "s">>
      [] category = "AUTRE" -> <<"a", "u", "t", "r", "e">>

PANTRY_STAPLES ==
    { <<"s", "e", "l">>,
      <<"p", "o", "i", "v", "r", "e">>,
      <<"h", "u", "i", "l", "e", " ", "d", "'", "o", "l", "i", "v", "e">>,
      <<"h", "u", "i", "l", "e">>,
      <<"v", "i", "n", "a", "i", "g", "r", "e">>,
      <<"s", "u", "c", "r", "e">>,
      <<"f", "a", "r", "i", "n", "e">>,
      <<"e", "a", "u">>,
      <<"p", "o", "i", "v", "r", "e", " ", "n", "o", "i", "r">>,
      <<"s", "e", "l", " ", "f", "i", "n">>,
      <<"g", "r", "o", "s", " ", "s", "e", "l">> }

\* CATEGORY_MAPPING as a set of <<key, member>> pairs.
CATEGORY_MAPPING ==
    { <<<<"l", "e", "g", "u", "m", "e", "s">>, "LEGUMES">>,
      <<<<"l", "é", "g", "u", "m", "e", "s">>, "LEGUMES">>,
      <<<<"f", "r", "u", "i", "t", "s">>, "FRUITS">>,
      <<<<"p", "r", "o", "t", "e", "i", "n", "e", "s">>, "PROTEINES">>,
      <<<<"p", "r", "o", "t", "é", "i", "n", "e", "s">>, "PROTEINES">>,
      <<<<"v", "i", "a", "n", "d", "e">>, "PROTEINES">>,
      <<<<"p", "o", "i", "s", "s", "o", "n">>, "PROTEINES">>,
      <<<<"e", "p", "i", "c", "e", "r", "i", "e">>, "EPICERIE">>,
      <<<<"é", "p", "i", "c", "e", "r", "i", "e">>, "EPICERIE">>,
      <<<<"b", "a", "s", "e">>, "EPICERIE">>,
      <<<<"f", "r", "a", "i", "s">>, "FRAIS">>,
      <<<<"s", "u", "r", "g", "e", "l", "e", "s">>, "SURGELES">>,
      <<<<"s", "u", "r", "g", "e", "l", "é", "s">>, "SURGELES">>,
      <<<<"b", "o", "i", "s", "s", "o", "n", "s">>, "BOISSONS">> }

\* models.Ingredient
Ingredient(name, quantity, unit, category) ==
    [name |-> name, quantity |-> quantity, unit |-> unit, category |-> category]

\* models.Macros
Macros(calories, protein_g, carbs_g, fat_g) ==
    [calories |-> calories, protein_g |-> protein_g, carbs_g |-> carbs_g,
     fat_g |-> fat_g]

\* models.Recipe (the fields the two pipelines read)
Recipe(id, servings, ingredients, macros) ==
    [id |-> id, servings |-> servings, ingredients |-> ingredients,
     macros |-> macros]

\* models.MealSlot
MealSlot(day, recipe_id, portions) ==
    [day |-> day, recipe_id |-> recipe_id, portions |-> portions]

\* aggregator.GroceryListItem
GroceryListItem(ingredient_name, total_quantity, unit, category) ==
    [ingredient_name |-> ingredient_name, total_quantity |-> total_quantity,
     unit |-> unit, category |-> category]

\* _normalize_ingredient_name: name.lower().strip()
normalize_ingredient_name(name) == StrStrip(StrLower(name))

\* As _is_pantry_staple, testing only "staple in normalized".
is_pantry_staple_one_way(name) ==
    LET normalized == normalize_ingredient_name(name)
    IN  \E staple \in PANTRY_STAPLES : StrIn(staple, normalized)

\* _is_pantry_staple: some staple is in the normalized name, or it in a staple.
is_pantry_staple(name) ==
    \E normalized \in {normalize_ingredient_name(name)} :
        \E staple \in PANTRY_STAPLES :
            StrIn(staple, normalized) \/ StrIn(normalized, staple)

\* As _get_category, without the strip().
get_category_no_strip(category_str) ==
    LET normalized == StrLower(category_str)
    IN  IF \E e \in CATEGORY_MAPPING : e[1] = normalized
        THEN (CHOOSE e \in CATEGORY_MAPPING : e[1] = normalized)[2]
        ELSE "AUTRE"

\* _get_category: CATEGORY_MAPPING.get(category_str.lower().strip(), AUTRE)
get_category(category_str) ==
    The({ IF \E e \in CATEGORY_MAPPING : e[1] = normalized
          THEN (CHOOSE e \in CATEGORY_MAPPING : e[1] = normalized)[2]
          ELSE "AUTRE" :
              normalized \in {StrStrip(StrLower(category_str))} })

\* As recipes.get, falling back to some recipe of the table for a missing id.
RecipesGetWithDefault(recipes, recipe_id) ==
    IF recipe_id \in DOMAIN recipes THEN Some(recipes[recipe_id])
    ELSE IF DOMAIN recipes = {} THEN None
    ELSE Some(recipes[CHOOSE id \in DOMAIN recipes : TRUE])

\* recipes.get(recipe_id): the recipe, or None for an id that is no key.
RecipesGet(recipes, recipe_id) ==
    IF recipe_id \in DOMAIN recipes THEN Some(recipes[recipe_id]) ELSE None

\* slot.portions / recipe.servings raises ZeroDivisionError iff servings is 0.
DivisionRaises(portions, servings) == servings = 0

\* As the portion multiplier, forgetting the division by recipe.servings.
PortionMultiplierNoServings(portions, servings) == Rat(portions, 1)

\* portion_multiplier = slot.portions / recipe.servings (servings # 0)
PortionMultiplier(portions, servings) == Rat(portions, servings)

\* As the skip test, ignoring the exclude_pantry flag.
SkipIngredientAlways(exclude_pantry, ingredient) ==
    is_pantry_staple(ingredient.name)

\* As the skip test, on the name as written being one of the staples.
SkipIngredientExactName(exclude_pantry, ingredient) ==
    exclude_pantry /\ ingredient.name \in PANTRY_STAPLES

\* exclude_pantry and _is_pantry_staple(ingredient.name)
SkipIngredient(exclude_pantry, ingredient) ==
    exclude_pantry /\ is_pantry_staple(ingredient.name)

\* As the accumulation, never looking the key up: always a new entry.
AccumulateAlwaysInsert(aggregated, normalized_name, ingredient, quantity) ==
    Append(aggregated,
           [key |-> normalized_name,
            name |-> ingredient.name,
            quantity |-> quantity,
            unit |-> ingredient.unit,
            category |-> get_category(ingredient.category)])

\* As the accumulation, with "=" for "+=" on an existing entry.
AccumulateOverwrite(aggregated, normalized_name, ingredient, quantity) ==
    IF \E k \in DOMAIN aggregated : aggregated[k].key = normalized_name
    THEN LET k == CHOOSE k \in DOMAIN aggregated :
                      aggregated[k].key = normalized_name
         IN  [aggregated EXCEPT ![k].quantity = quantity]
    ELSE Append(aggregated,
                [key |-> normalized_name,
                 name |-> ingredient.name,
                 quantity |-> quantity,
                 unit |-> ingredient.unit,
                 category |-> get_category(ingredient.category)])

\* As the accumulation, an existing entry taking the name, the unit and the
\* category of the latest occurrence.
AccumulateLastSeen(aggregated, normalized_name, ingredient, quantity) ==
    IF \E k \in DOMAIN aggregated : aggregated[k].key = normalized_name
    THEN LET k == CHOOSE k \in DOMAIN aggregated :
                      aggregated[k].key = normalized_name
         IN  [aggregated EXCEPT
                 ![k] = [key |-> normalized_name,
                         name |-> ingredient.name,
                         quantity |-> RatAdd(aggregated[k].quantity, quantity),
                         unit |-> ingredient.unit,
                         category |-> get_category(ingredient.category)]]
    ELSE Append(aggregated,
                [key |-> normalized_name,
                 name |-> ingredient.name,
                 quantity |-> quantity,
                 unit |-> ingredient.unit,
                 category |-> get_category(ingredient.category)])

\* The if/else on "normalized_name in aggregated": add to the entry of that
\* key, or insert a new entry at the end (dicts keep insertion order).
Accumulate(aggregated, normalized_name, ingredient, quantity) ==
    IF \E k \in DOMAIN aggregated : aggregated[k].key = normalized_name
    THEN LET k == CHOOSE k \in DOMAIN aggregated :
                      aggregated[k].key = normalized_name
         IN  [aggregated EXCEPT ![k].quantity = RatAdd(@, quantity)]
    ELSE Append(aggregated,
                [key |-> normalized_name,
                 name |-> ingredient.name,
                 quantity |-> quantity,
                 unit |-> ingredient.unit,
                 category |-> get_category(ingredient.category)])

\* One pass of the body of "for ingredient in recipe.ingredients".
IngredientStep(aggregated, ingredient, portion_multiplier, exclude_pantry) ==
    The({ IF SkipIngredient(exclude_pantry, ingredient)
          THEN aggregated
          ELSE Accumulate(aggregated, normalized_name, ingredient, quantity) :
              normalized_name \in {normalize_ingredient_name(ingredient.name)},
              quantity \in {RatMul(ingredient.quantity, portion_multiplier)} })

RECURSIVE IngredientLoop(_, _, _, _, _)
IngredientLoop(aggregated, ingredients, j, portion_multiplier, exclude_pantry) ==
    IF j > Len(ingredients) THEN aggregated
    ELSE IngredientLoop(
             IngredientStep(aggregated, ingredients[j], portion_multiplier,
                            exclude_pantry),
             ingredients, j + 1, portion_multiplier, exclude_pantry)

\* As the raise, caught around the loop: the slots before it still count.
SwallowZeroDivisionError(aggregated) ==
    [raised |-> FALSE, aggregated |-> aggregated]

\* The ZeroDivisionError leaves the call: the accumulator is lost with it.
RaiseZeroDivisionError(aggregated) == [raised |-> TRUE, aggregated |-> <<>>]

\* "for slot in plan.slots", from slot i on.
RECURSIVE SlotLoop(_, _, _, _, _)
SlotLoop(aggregated, slots, i, recipes, exclude_pantry) ==
    IF i > Len(slots) THEN [raised |-> FALSE, aggregated |-> aggregated]
    ELSE LET slot == slots[i]
             recipe == RecipesGet(recipes, slot.recipe_id)
         IN  IF IsNone(recipe)
             THEN SlotLoop(aggregated, slots, i + 1, recipes, exclude_pantry)
             ELSE IF DivisionRaises(slot.portions, Get(recipe).servings)
             THEN RaiseZeroDivisionError(aggregated)
             ELSE SlotLoop(
                      IngredientLoop(aggregated, Get(recipe).ingredients, 1,
                                     PortionMultiplier(slot.portions,
                                                       Get(recipe).servings),
                                     exclude_pantry),
                      slots, i + 1, recipes, exclude_pantry)

\* As the sort key, without the category: x.ingredient_name.lower() alone.
SortKeyLessNameOnly(x, y) ==
    StrLess(StrLower(x.ingredient_name), StrLower(y.ingredient_name))

\* As the sort key, without the name: x.category.value alone.
SortKeyLessCategoryOnly(x, y) ==
    StrLess(CategoryValue(x.category), CategoryValue(y.category))

\* The key of items.sort: (x.category.value, x.ingredient_name.lower()),
\* compared as Python compares tuples.
SortKeyLess(x, y) ==
    \E xv \in {CategoryValue(x.category)}, yv \in {CategoryValue(y.category)} :
        IF xv # yv THEN StrLess(xv, yv)
        ELSE StrLess(StrLower(x.ingredient_name), StrLower(y.ingredient_name))

\* list.sort is stable: x goes after the last element that is not greater.
RECURSIVE InsertSorted(_, _)
InsertSorted(sorted, x) ==
    The({ IF s = <<>> THEN <<x>>
          ELSE IF SortKeyLess(x, s[Len(s)])
          THEN Append(InsertSorted(SubSeq(s, 1, Len(s) - 1), x), s[Len(s)])
          ELSE Append(s, x) : s \in {sorted} })

RECURSIVE SortItems(_)
SortItems(items) ==
    IF items = <<>> THEN <<>>
    ELSE InsertSorted(SortItems(SubSeq(items, 1, Len(items) - 1)),
                      items[Len(items)])

\* aggregate_ingredients(plan, recipes, exclude_pantry): raised, or the
\* GroceryList (its items).
aggregate_ingredients(slots, recipes, exclude_pantry) ==
    LET done == SlotLoop(<<>>, slots, 1, recipes, exclude_pantry)
        items == [k \in DOMAIN done.aggregated |->
                     GroceryListItem(done.aggregated[k].name,
                                     done.aggregated[k].quantity,
                                     done.aggregated[k].unit,
                                     done.aggregated[k].category)]
    IN  IF done.raised
        THEN [raised |-> TRUE, items |-> <<>>]
        ELSE [raised |-> FALSE, items |-> SortItems(items)]

\* GroceryList.total_items
total_items(items) == Len(items)

\* As the pass of by_category, with "= [item]" for ".append(item)".
ByCategoryStepOverwrite(result, item) ==
    [c \in DOMAIN result \cup {item.category} |->
        IF c = item.category THEN <<item>> ELSE result[c]]

\* As the pass of by_category, with ".insert(0, item)" for ".append(item)".
ByCategoryStepPrepend(result, item) ==
    LET with_key == IF item.category \in DOMAIN result THEN result
                    ELSE [c \in DOMAIN result \cup {item.category} |->
                             IF c \in DOMAIN result THEN result[c] ELSE <<>>]
    IN  [with_key EXCEPT ![item.category] = <<item>> \o @]

\* One pass of the loop of GroceryList.by_category; result is a function
\* from the categories seen so far to their lists.
ByCategoryStep(result, item) ==
    LET with_key == IF item.category \in DOMAIN result THEN result
                    ELSE [c \in DOMAIN result \cup {item.category} |->
                             IF c \in DOMAIN result THEN result[c] ELSE <<>>]
    IN  [with_key EXCEPT ![item.category] = Append(@, item)]

RECURSIVE ByCategoryLoop(_, _, _)
ByCategoryLoop(result, items, i) ==
    IF i > Len(items) THEN result
    ELSE ByCategoryLoop(ByCategoryStep(result, items[i]), items, i + 1)

\* GroceryList.by_category
by_category(items) == ByCategoryLoop(<<>>, items, 1)

(***************************************************************************)
(* planner/nutrition.py                                                    *)
(***************************************************************************)
DAILY_PROTEIN_MIN_G == Int2Rat(60)

DAILY_CARBS_MAX_G == Int2Rat(150)

HIGH_CARB_THRESHOLD_G == Int2Rat(50)

\* nutrition.ValidationResult
ValidationResult(is_valid, total, target, deficit, excess) ==
    [is_valid |-> is_valid, total |-> total, target |-> target,
     deficit |-> deficit, excess |-> excess]

\* sum(...) over a list of numbers, from 0.
RECURSIVE SumSeq(_)
SumSeq(xs) ==
    IF xs = <<>> THEN Int2Rat(0)
    ELSE RatAdd(SumSeq(SubSeq(xs, 1, Len(xs) - 1)), xs[Len(xs)])

\* As validate_daily_protein, with ">" for ">=".
validate_daily_protein_strict(daily_macros) ==
    LET total_protein ==
            SumSeq([i \in DOMAIN daily_macros |-> daily_macros[i].protein_g])
    IN  ValidationResult(RatLess(DAILY_PROTEIN_MIN_G, total_protein),
                         total_protein,
                         DAILY_PROTEIN_MIN_G,
                         RatMax(Int2Rat(0),
                                RatSub(DAILY_PROTEIN_MIN_G, total_protein)),
                         Int2Rat(0))

\* As validate_daily_protein, without the max(0, ...) around the deficit.
validate_daily_protein_unclamped(daily_macros) ==
    LET total_protein ==
            SumSeq([i \in DOMAIN daily_macros |-> daily_macros[i].protein_g])
    IN  ValidationResult(RatLeq(DAILY_PROTEIN_MIN_G, total_protein),
                         total_protein,
                         DAILY_PROTEIN_MIN_G,
                         RatSub(DAILY_PROTEIN_MIN_G, total_protein),
                         Int2Rat(0))

validate_daily_protein(daily_macros) ==
    LET total_protein ==
            SumSeq([i \in DOMAIN daily_macros |-> daily_macros[i].protein_g])
    IN  ValidationResult(RatLeq(DAILY_PROTEIN_MIN_G, total_protein),
                         total_protein,
                         DAILY_PROTEIN_MIN_G,
                         RatMax(Int2Rat(0),
                                RatSub(DAILY_PROTEIN_MIN_G, total_protein)),
                         Int2Rat(0))

\* As validate_daily_carbs, with "<" for "<=".
validate_daily_carbs_strict(daily_macros) ==
    LET total_carbs ==
            SumSeq([i \in DOMAIN daily_macros |-> daily_macros[i].carbs_g])
    IN  ValidationResult(RatLess(total_carbs, DAILY_CARBS_MAX_G),
                         total_carbs,
                         DAILY_CARBS_MAX_G,
                         Int2Rat(0),
                         RatMax(Int2Rat(0),
                                RatSub(total_carbs, DAILY_CARBS_MAX_G)))

validate_daily_carbs(daily_macros) ==
    LET total_carbs ==
            SumSeq([i \in DOMAIN daily_macros |-> daily_macros[i].carbs_g])
    IN  ValidationResult(RatLeq(total_carbs, DAILY_CARBS_MAX_G),
                         total_carbs,
                         DAILY_CARBS_MAX_G,
                         Int2Rat(0),
                         RatMax(Int2Rat(0),
                                RatSub(total_carbs, DAILY_CARBS_MAX_G)))

\* As is_high_carb_recipe, with ">=" for ">".
is_high_carb_recipe_at_threshold(recipe) ==
    IF IsNone(recipe.macros) THEN FALSE
    ELSE RatLeq(HIGH_CARB_THRESHOLD_G, Get(recipe.macros).carbs_g)

is_high_carb_recipe(recipe) ==
    IF IsNone(recipe.macros) THEN FALSE
    ELSE RatLess(HIGH_CARB_THRESHOLD_G, Get(recipe.macros).carbs_g)

\* As the scaling, forgetting slot.portions.
ScaledMacrosOnePortion(macros, portions) ==
    Macros(macros.calories, macros.protein_g, macros.carbs_g, macros.fat_g)

\* The macros of one slot, scaled by slot.portions.
ScaledMacros(macros, portions) ==
    Macros(macros.calories * portions,
           RatMul(macros.protein_g, Int2Rat(portions)),
           RatMul(macros.carbs_g, Int2Rat(portions)),
           RatMul(macros.fat_g, Int2Rat(portions)))

\* As the loop over day_slots, deciding the high-carb flag on the carbs
\* scaled by slot.portions.
RECURSIVE DayLoopFlagOnScaled(_, _, _, _)
DayLoopFlagOnScaled(acc, day_slots, i, recipes) ==
    IF i > Len(day_slots) THEN acc
    ELSE LET slot == day_slots[i]
             recipe == RecipesGet(recipes, slot.recipe_id)
         IN  IF ~IsNone(recipe) /\ ~IsNone(Get(recipe).macros)
             THEN LET macros == ScaledMacros(Get(Get(recipe).macros),
                                             slot.portions)
                  IN  DayLoopFlagOnScaled(
                          [daily_macros |-> Append(acc.daily_macros, macros),
                           high_carb_recipes |->
                               IF RatLess(HIGH_CARB_THRESHOLD_G, macros.carbs_g)
                               THEN Append(acc.high_carb_recipes, Get(recipe).id)
                               ELSE acc.high_carb_recipes],
                          day_slots, i + 1, recipes)
             ELSE DayLoopFlagOnScaled(acc, day_slots, i + 1, recipes)

\* "for slot in day_slots": acc holds daily_macros and high_carb_recipes.
RECURSIVE DayLoop(_, _, _, _)
DayLoop(acc, day_slots, i, recipes) ==
    IF i > Len(day_slots) THEN acc
    ELSE LET slot == day_slots[i]
             recipe == RecipesGet(recipes, slot.recipe_id)
         IN  IF ~IsNone(recipe) /\ ~IsNone(Get(recipe).macros)
             THEN DayLoop(
                      [daily_macros |->
                           Append(acc.daily_macros,
                                  ScaledMacros(Get(Get(recipe).macros),
                                               slot.portions)),
                       high_carb_recipes |->
                           IF is_high_carb_recipe(Get(recipe))
                           THEN Append(acc.high_carb_recipes, Get(recipe).id)
                           ELSE acc.high_carb_recipes],
                      day_slots, i + 1, recipes)
             ELSE DayLoop(acc, day_slots, i + 1, recipes)

\* As validate_meal_plan_nutrition, without the filter on slot.day.
validate_meal_plan_nutrition_any_day(slots, recipes, day) ==
    LET acc == DayLoop([daily_macros |-> <<>>, high_carb_recipes |-> <<>>],
                       slots, 1, recipes)
        protein_result == validate_daily_protein(acc.daily_macros)
        carbs_result == validate_daily_carbs(acc.daily_macros)
    IN  [protein_valid |-> protein_result.is_valid,
         carbs_valid |-> carbs_result.is_valid,
         protein_total |-> protein_result.total,
         carbs_total |-> carbs_result.total,
         high_carb_recipes |->
             IF acc.high_carb_recipes # <<>>
             THEN Some(acc.high_carb_recipes) ELSE None]

\* validate_meal_plan_nutrition(plan, recipes, day): NutritionValidationResult
validate_meal_plan_nutrition(slots, recipes, day) ==
    LET day_slots == SelectSeq(slots, LAMBDA slot : slot.day = day)
        acc == DayLoop([daily_macros |-> <<>>, high_carb_recipes |-> <<>>],
                       day_slots, 1, recipes)
        protein_result == validate_daily_protein(acc.daily_macros)
        carbs_result == validate_daily_carbs(acc.daily_macros)
    IN  [protein_valid |-> protein_result.is_valid,
         carbs_valid |-> carbs_result.is_valid,
         protein_total |-> protein_result.total,
         carbs_total |-> carbs_result.total,
         high_carb_recipes |->
             IF acc.high_carb_recipes # <<>>
             THEN Some(acc.high_carb_recipes) ELSE None]

\* As is_valid, a flagged recipe making the day invalid too.
is_valid_without_high_carb(result) ==
    result.protein_valid /\ result.carbs_valid
        /\ IsNone(result.high_carb_recipes)

\* NutritionValidationResult.is_valid
is_valid(result) == result.protein_valid /\ result.carbs_valid

(***************************************************************************)
(* planner/seasonal.py                                                     *)
(***************************************************************************)
SeasonalCategory == {"LEGUMES", "FRUITS", "HERBES"}

\* _SEASONAL_CALENDAR: month -> category -> ingredient names.
SEASONAL_CALENDAR ==
    1 :> [ LEGUMES |->
              <<"carotte", "panais", "celeri-rave", "poireau", "chou",
                "chou-rouge", "chou-frise", "betterave", "navet",
                "rutabaga", "topinambour", "salsifis", "endive", "mache">>,
          FRUITS |->
              <<"pomme", "poire">>,
          HERBES |->
              <<"persil", "romarin", "thym", "sauge">> ]
    @@
    2 :> [ LEGUMES |->
              <<"carotte", "panais", "celeri-rave", "poireau", "chou",
                "chou-rouge", "chou-frise", "betterave", "navet",
                "rutabaga", "topinambour", "salsifis", "endive", "mache",
                "epinard">>,
          FRUITS |->
              <<"pomme", "poire">>,
          HERBES |->
              <<"persil", "romarin", "thym", "sauge">> ]
    @@
    3 :> [ LEGUMES |->
              <<"carotte", "panais", "celeri-rave", "poireau", "chou",
                "epinard", "mache", "radis", "cresson">>,
          FRUITS |->
              <<"pomme", "poire", "rhubarbe">>,
          HERBES |->
              <<"persil", "ciboulette", "ail-des-ours">> ]
    @@
    4 :> [ LEGUMES |->
              <<"asperge", "radis", "epinard", "cresson", "laitue",
                "oignon-nouveau", "carotte-nouvelle">>,
          FRUITS |->
              <<"rhubarbe">>,
          HERBES |->
              <<"persil", "ciboulette", "ail-des-ours", "cerfeuil">> ]
    @@
    5 :> [ LEGUMES |->
              <<"asperge", "radis", "epinard", "laitue", "petit-pois",
                "feve", "oignon-nouveau", "carotte-nouvelle", "chou-rave">>,
          FRUITS |->
              <<"rhubarbe", "fraise">>,
          HERBES |->
              <<"persil", "ciboulette", "basilic", "menthe", "cerfeuil",
                "estragon">> ]
    @@
    6 :> [ LEGUMES |->
              <<"asperge", "petit-pois", "feve", "haricot-vert",
                "courgette", "concombre", "laitue", "radis", "chou-rave",
                "fenouil", "bette">>,
          FRUITS |->
              <<"fraise", "cerise", "framboise", "groseille">>,
          HERBES |->
              <<"persil", "ciboulette", "basilic", "menthe", "aneth",
                "coriandre">> ]
    @@
    7 :> [ LEGUMES |->
              <<"tomate", "courgette", "aubergine", "poivron", "concombre",
                "haricot-vert", "petit-pois", "fenouil", "bette", "mais",
                "laitue", "celeri-branche">>,
          FRUITS |->
              <<"fraise", "framboise", "myrtille", "groseille", "cerise",
                "abricot", "peche", "prune">>,
          HERBES |->
              <<"basilic", "persil", "ciboulette", "menthe", "aneth",
                "coriandre", "origan", "marjolaine">> ]
    @@
    8 :> [ LEGUMES |->
              <<"tomate", "courgette", "aubergine", "poivron", "concombre",
                "haricot-vert", "fenouil", "bette", "mais", "oignon",
                "ail">>,
          FRUITS |->
              <<"framboise", "myrtille", "mure", "prune", "peche", "poire",
                "pomme", "melon", "pasteque">>,
          HERBES |->
              <<"basilic", "persil", "ciboulette", "menthe", "aneth",
                "coriandre", "origan", "thym">> ]
    @@
    9 :> [ LEGUMES |->
              <<"tomate", "courgette", "aubergine", "poivron", "courge",
                "potimarron", "butternut", "haricot-vert", "fenouil",
                "bette", "chou", "poireau", "carotte">>,
          FRUITS |->
              <<"pomme", "poire", "prune", "raisin", "figue", "mure">>,
          HERBES |->
              <<"persil", "ciboulette", "thym", "romarin", "sauge">> ]
    @@
    10 :> [ LEGUMES |->
              <<"courge", "potimarron", "butternut", "chou", "chou-rouge",
                "chou-frise", "poireau", "carotte", "panais",
                "celeri-rave", "betterave", "navet", "fenouil", "brocoli">>,
          FRUITS |->
              <<"pomme", "poire", "raisin", "coing", "chataigne", "noix">>,
          HERBES |->
              <<"persil", "thym", "romarin", "sauge">> ]
    @@
    11 :> [ LEGUMES |->
              <<"courge", "potimarron", "butternut", "chou", "chou-rouge",
                "chou-frise", "chou-de-bruxelles", "poireau", "carotte",
                "panais", "celeri-rave", "betterave", "navet",
                "topinambour", "salsifis", "endive", "mache">>,
          FRUITS |->
              <<"pomme", "poire", "coing", "chataigne", "noix">>,
          HERBES |->
              <<"persil", "thym", "romarin", "sauge">> ]
    @@
    12 :> [ LEGUMES |->
              <<"chou", "chou-rouge", "chou-frise", "chou-de-bruxelles",
                "poireau", "carotte", "panais", "celeri-rave", "betterave",
                "navet", "rutabaga", "topinambour", "salsifis", "endive",
                "mache">>,
          FRUITS |->
              <<"pomme", "poire">>,
          HERBES |->
              <<"persil", "thym", "romarin", "sauge">> ]

\* As get_seasonal_ingredients, with "1 <= month <= 11".
get_seasonal_ingredients_to_november(month) ==
    IF ~(1 <= month /\ month <= 11)
    THEN [raised |-> TRUE, error |-> "ValueError", value |-> None]
    ELSE [raised |-> FALSE, error |-> None,
          value |-> Some(SEASONAL_CALENDAR[month])]

\* get_seasonal_ingredients(month): raises ValueError or returns the
\* calendar's entry of the month.
get_seasonal_ingredients(month) ==
    IF ~(1 <= month /\ month <= 12)
    THEN [raised |-> TRUE, error |-> "ValueError", value |-> None]
    ELSE [raised |-> FALSE, error |-> None,
          value |-> Some(SEASONAL_CALENDAR[month])]

(***************************************************************************)
(* grocery/formatter.py                                                    *)
(***************************************************************************)
Digits == <<"0", "1", "2", "3", "4", "5", "6", "7", "8", "9">>

\* str(n) for an int n >= 0.
RECURSIVE NatToStr(_)
NatToStr(n) ==
    IF n < 10 THEN <<Digits[n + 1]>>
    ELSE Append(NatToStr(n \div 10), Digits[(n % 10) + 1])

\* str(n) for an int n.
IntToStr(n) == IF n < 0 THEN <<"-">> \o NatToStr(-n) ELSE NatToStr(n)

\* int(quantity): truncation towards zero.
PyInt(quantity) ==
    IF quantity.num < 0 THEN -((-quantity.num) \div quantity.den)
    ELSE quantity.num \div quantity.den

\* The integer nearest to a quantity >= 0, the even one of two at a tie.
RoundHalfEven(quantity) ==
    LET floor == quantity.num \div quantity.den
        twice_rest == 2 * (quantity.num % quantity.den)
    IN  IF twice_rest < quantity.den THEN floor
        ELSE IF twice_rest > quantity.den THEN floor + 1
        ELSE IF floor % 2 = 0 THEN floor ELSE floor + 1

\* f"{quantity:.0f}": the sign of the quantity, kept when the digits are 0,
\* and its magnitude rounded to the nearest integer.
FormatFixedNoDecimals(quantity) ==
    LET digits == NatToStr(RoundHalfEven(Rat(Abs(quantity.num), quantity.den)))
    IN  IF quantity.num < 0 THEN <<"-">> \o digits ELSE digits

\* As _format_quantity, cutting the decimals off.
format_quantity_truncated(quantity) == IntToStr(PyInt(quantity))

\* _format_quantity(quantity)
format_quantity(quantity) ==
    IF quantity = Int2Rat(PyInt(quantity))
    THEN IntToStr(PyInt(quantity))
    ELSE FormatFixedNoDecimals(quantity)

\* A text is a sequence of pieces: characters, and strings that stay whole
\* (a unit, a fixed label, a symbol named by its code point).
CATEGORY_EMOJIS ==
    [LEGUMES |-> "U+1F96C", FRUITS |-> "U+1F34E", PROTEINES |-> "U+1F969",
     EPICERIE |-> "U+1F3EA", FRAIS |-> "U+1F9C0", SURGELES |-> "U+1F9CA",
     BOISSONS |-> "U+1F964", AUTRE |-> "U+1F4E6"]

CATEGORY_NAMES ==
    [LEGUMES |-> "Légumes", FRUITS |-> "Fruits", PROTEINES |-> "Protéines",
     EPICERIE |-> "Épicerie", FRAIS |-> "Frais", SURGELES |-> "Surgelés",
     BOISSONS |-> "Boissons", AUTRE |-> "Autres"]

\* _format_item: f"<ballot box> {item.ingredient_name} - {quantity_str}{item.unit}"
format_item(item) ==
    <<"U+2610", " ">> \o item.ingredient_name \o <<" ", "-", " ">>
        \o format_quantity(item.total_quantity) \o <<item.unit>>

\* "\n".join(lines)
RECURSIVE JoinLines(_)
JoinLines(lines) ==
    IF lines = <<>> THEN <<>>
    ELSE IF Len(lines) = 1 THEN lines[1]
    ELSE JoinLines(SubSeq(lines, 1, Len(lines) - 1))
             \o <<"\n">> \o lines[Len(lines)]

\* As category_order, in the order the members of IngredientCategory are
\* declared.
category_order_as_declared ==
    <<"LEGUMES", "FRUITS", "PROTEINES", "EPICERIE", "FRAIS", "SURGELES",
      "BOISSONS", "AUTRE">>

\* category_order of format_grocery_list
category_order ==
    <<"LEGUMES", "FRUITS", "PROTEINES", "FRAIS", "EPICERIE", "BOISSONS",
      "SURGELES", "AUTRE">>

\* "for category in category_order", from position k on: a section of a
\* title, the lines of the items and an empty line for a category with items.
RECURSIVE CategoryLoop(_, _, _)
CategoryLoop(lines, grouped, k) ==
    IF k > Len(category_order) THEN lines
    ELSE LET category == category_order[k]
             items == IF category \in DOMAIN grouped THEN grouped[category]
                      ELSE <<>>
         IN  IF items = <<>> THEN CategoryLoop(lines, grouped, k + 1)
             ELSE CategoryLoop(
                      lines
                          \o << <<CATEGORY_EMOJIS[category], " ", "*",
                                  CATEGORY_NAMES[category], "*">> >>
                          \o [i \in DOMAIN items |-> format_item(items[i])]
                          \o << <<>> >>,
                      grouped, k + 1)

\* format_grocery_list(grocery_list)
format_grocery_list(items) ==
    IF items = <<>>
    THEN <<"U+1F6D2", " ", "*Liste de courses*", "\n", "\n",
           "_Aucun article_">>
    ELSE JoinLines(
             CategoryLoop(<< <<"U+1F6D2", " ", "*Liste de courses*">>, <<>> >>,
                          by_category(items), 1)
                 \o << <<"_Total: ">> \o NatToStr(total_items(items))
                           \o <<" articles_">> >>)

(***************************************************************************)
(* planner/generator.py: MealPlanGenerator.generate runs _build_prompt,    *)
(* _call_claude and _parse_response in turn; the call record holds the      *)
(* step it is at (pc) and the requests made to client.messages.create.     *)
(***************************************************************************)
\* GeneratorConstraints(): the defaults of the dataclass.
GeneratorConstraints(exclude_ingredients) ==
    [exclude_ingredients |-> exclude_ingredients,
     max_meat_fish_per_week |-> 1,
     min_protein_per_day |-> Int2Rat(60),
     max_carbs_per_day |-> Int2Rat(150),
     quick_dinner_max_min |-> 15]

\* ", ".join(names)
RECURSIVE CommaJoin(_)
CommaJoin(names) ==
    IF names = <<>> THEN <<>>
    ELSE IF Len(names) = 1 THEN <<names[1]>>
    ELSE CommaJoin(SubSeq(names, 1, Len(names) - 1))
             \o <<", ", names[Len(names)]>>

\* As _build_prompt, a month without calendar entry giving empty lists.
build_prompt_unchecked(week, month, constraints) ==
    LET seasonal == IF month \in DOMAIN SEASONAL_CALENDAR
                    THEN SEASONAL_CALENDAR[month]
                    ELSE [category \in SeasonalCategory |-> <<>>]
    IN  [raised |-> FALSE, error |-> None,
         value |-> Some(
             [week |-> week,
              month |-> month,
              excluded_ingredients |->
                  IF constraints.exclude_ingredients # <<>>
                  THEN CommaJoin(constraints.exclude_ingredients)
                  ELSE <<"aucun">>,
              max_meat_fish |-> constraints.max_meat_fish_per_week,
              min_protein |-> constraints.min_protein_per_day,
              max_carbs |-> constraints.max_carbs_per_day,
              seasonal_vegetables |-> CommaJoin(seasonal["LEGUMES"]),
              seasonal_fruits |-> CommaJoin(seasonal["FRUITS"]),
              seasonal_herbs |-> CommaJoin(seasonal["HERBES"]),
              quick_dinner_max |-> constraints.quick_dinner_max_min])]

\* _build_prompt(week, month, constraints): the ValueError of
\* get_seasonal_ingredients, or the fields PROMPT_TEMPLATE is filled with.
build_prompt(week, month, constraints) ==
    LET lookup == get_seasonal_ingredients(month)
    IN  IF lookup.raised
        THEN [raised |-> TRUE, error |-> lookup.error, value |-> None]
        ELSE LET seasonal == Get(lookup.value)
             IN  [raised |-> FALSE, error |-> None,
                  value |-> Some(
                      [week |-> week,
                       month |-> month,
                       excluded_ingredients |->
                           IF constraints.exclude_ingredients # <<>>
                           THEN CommaJoin(constraints.exclude_ingredients)
                           ELSE <<"aucun">>,
                       max_meat_fish |-> constraints.max_meat_fish_per_week,
                       min_protein |-> constraints.min_protein_per_day,
                       max_carbs |-> constraints.max_carbs_per_day,
                       seasonal_vegetables |-> CommaJoin(seasonal["LEGUMES"]),
                       seasonal_fruits |-> CommaJoin(seasonal["FRUITS"]),
                       seasonal_herbs |-> CommaJoin(seasonal["HERBES"]),
                       quick_dinner_max |-> constraints.quick_dinner_max_min])]

\* json_str of _parse_response.  A response is its fence ("json" for
\* ```json, "bare" for ```, "none"), whether prose stands around the inner
\* text, and the inner text, which is no JSON or writes some data: between
\* fences json_str is the inner text, without them the whole response.
ExtractJson(response) ==
    IF response.fence \in {"json", "bare"} THEN response.inner
    ELSE IF response.prose THEN [is_json |-> FALSE, data |-> None]
    ELSE response.inner

\* data["recipes"] -> Recipe(...): macros only under a non-empty "macros".
ParseRecipe(r) ==
    Recipe(r.id, r.servings,
           [i \in DOMAIN r.ingredients |->
                Ingredient(r.ingredients[i].name, r.ingredients[i].quantity,
                           r.ingredients[i].unit, r.ingredients[i].category)],
           IF "macros" \in DOMAIN r /\ ~IsNone(r.macros)
           THEN Some(Macros(Get(r.macros).calories, Get(r.macros).protein_g,
                            Get(r.macros).carbs_g, Get(r.macros).fat_g))
           ELSE None)

\* plan_data["slots"] -> MealSlot(...): portions is s.get("portions", 1).
ParseSlot(slot) ==
    MealSlot(slot.day, slot.recipe_id,
             IF "portions" \in DOMAIN slot THEN slot.portions ELSE 1)

\* _parse_response(response): json.loads raises on a text that is no JSON,
\* data["recipes"] and data["meal_plan"] raise KeyError on a missing key.
parse_response(response) ==
    LET json_str == ExtractJson(response)
    IN  IF ~json_str.is_json
        THEN [raised |-> TRUE, error |-> "JSONDecodeError", value |-> None]
        ELSE LET data == json_str.data
             IN  IF "recipes" \notin DOMAIN data
                     \/ "meal_plan" \notin DOMAIN data
                 THEN [raised |-> TRUE, error |-> "KeyError", value |-> None]
                 ELSE [raised |-> FALSE, error |-> None,
                       value |-> Some(
                           [meal_plan |->
                                [week |-> data.meal_plan.week,
                                 slots |->
                                     [k \in DOMAIN data.meal_plan.slots |->
                                          ParseSlot(data.meal_plan.slots[k])]],
                            recipes |->
                                [k \in DOMAIN data.recipes |->
                                     ParseRecipe(data.recipes[k])]])]

\* generate, entered: constraints defaults to GeneratorConstraints().
GenerateEntered(week, month, constraints) ==
    [op |-> "generate", week |-> week, month |-> month,
     constraints |-> IF IsNone(constraints) THEN GeneratorConstraints(<<>>)
                     ELSE Get(constraints),
     pc |-> "_build_prompt", prompt |-> None, response |-> None,
     requests |-> <<>>]

\* An exception leaves generate, which catches nothing.
GenerateRaises(c, error) ==
    <<[c EXCEPT !.pc = "raised"], [raised |-> TRUE, error |-> error]>>

\* As the step of _build_prompt, on the unchecked prompt.
BuildPromptStepUnchecked(c) ==
    LET built == build_prompt_unchecked(c.week, c.month, c.constraints)
    IN  <<[c EXCEPT !.pc = "_call_claude", !.prompt = built.value], None>>

\* prompt = self._build_prompt(week, month, constraints)
BuildPromptStep(c) ==
    LET built == build_prompt(c.week, c.month, c.constraints)
    IN  IF built.raised THEN GenerateRaises(c, built.error)
        ELSE <<[c EXCEPT !.pc = "_call_claude", !.prompt = built.value], None>>

\* As the step of _call_claude, the call being made again after an error.
CallClaudeStepRetrying(c, outcome) ==
    LET sent == [c EXCEPT !.requests = Append(@, Get(c.prompt))]
    IN  IF outcome.raised THEN <<sent, None>>
        ELSE <<[sent EXCEPT !.pc = "_parse_response",
                            !.response = Some(outcome.response)], None>>

\* response = self._call_claude(prompt): one client.messages.create, whose
\* outcome (an error of the client, or a message) is not the program's.
CallClaudeStep(c, outcome) ==
    LET sent == [c EXCEPT !.requests = Append(@, Get(c.prompt))]
    IN  IF outcome.raised THEN GenerateRaises(sent, outcome.error)
        ELSE <<[sent EXCEPT !.pc = "_parse_response",
                            !.response = Some(outcome.response)], None>>

\* return self._parse_response(response)
ParseResponseStep(c) ==
    LET parsed == parse_response(Get(c.response))
    IN  IF parsed.raised THEN GenerateRaises(c, parsed.error)
        ELSE <<[c EXCEPT !.pc = "returned"],
               [raised |-> FALSE, value |-> Get(parsed.value)]>>

(***************************************************************************)
(* The inputs the operations are called with.                              *)
(***************************************************************************)
RecipeIds == {"curry", "soupe", "salade", "gratin", "tarte"}

\* The recipes callers build: shared names across recipes and within one,
\* names and labels with capitals and surrounding blanks, staples, every
\* sign of servings, macros present and absent.
LibraryRecipe(id) ==
    CASE id = "curry" ->
           Recipe("curry", 4,
               <<Ingredient(<<"T", "o", "f", "u", " ">>, Int2Rat(400), "g",
                   <<" ", "P", "r", "o", "t", "e", "i", "n", "e", "s">>),
                 Ingredient(<<"a", "i", "l">>, Int2Rat(10), "g",
                   <<"l", "e", "g", "u", "m", "e", "s">>),
                 Ingredient(<<"s", "e", "l">>, Int2Rat(5), "g",
                   <<"b", "a", "s", "e">>),
                 Ingredient(<<"r", "i", "z">>, Int2Rat(300), "g",
                   <<"b", "a", "s", "e">>)>>,
               Some(Macros(400, Int2Rat(30), Int2Rat(75), Int2Rat(10))))
      [] id = "soupe" ->
           Recipe("soupe", 2,
               <<Ingredient(<<" ", "t", "o", "f", "u">>, Int2Rat(150), "ml",
                   <<"f", "r", "a", "i", "s">>),
                 Ingredient(<<"A", "i", "l">>, Int2Rat(3), "g",
                   <<"L", "é", "g", "u", "m", "e", "s">>),
                 Ingredient(<<"a", "i", "l", " ">>, Int2Rat(5), "g",
                   <<"l", "e", "g", "u", "m", "e", "s">>),
                 Ingredient(<<"v", "e", "a", "u">>, Int2Rat(200), "g",
                   <<"v", "i", "a", "n", "d", "e">>)>>,
               Some(Macros(250, Rat(5999, 100), Int2Rat(50), Int2Rat(5))))
      [] id = "salade" ->
           Recipe("salade", 3,
               <<Ingredient(<<"r", "i", "z">>, Int2Rat(100), "g",
                   <<"É", "p", "i", "c", "e", "r", "i", "e">>),
                 Ingredient(<<" ", "k", "i", "w", "i">>, Int2Rat(2), "",
                   <<"f", "r", "u", "i", "t", "s">>),
                 Ingredient(<<"f", "i", "g", "u", "e">>, Rat(1, 2), "",
                   <<"F", "R", "U", "I", "T", "S">>),
                 Ingredient(<<" ">>, Int2Rat(1), "g",
                   <<"B", "o", "i", "s", "s", "o", "n", "s">>),
                 Ingredient(<<"m", "i", "e", "l">>, Int2Rat(20), "g",
                   <<"d", "i", "v", "e", "r", "s">>)>>,
               None)
      [] id = "gratin" ->
           Recipe("gratin", 0,
               <<Ingredient(<<"r", "i", "z">>, Int2Rat(100), "g",
                   <<"b", "a", "s", "e">>)>>,
               Some(Macros(100, Int2Rat(0), Rat(5001, 100), Int2Rat(1))))
      [] id = "tarte" ->
           Recipe("tarte", -2,
               <<Ingredient(<<"a", "i", "l">>, Int2Rat(10), "g",
                   <<"l", "e", "g", "u", "m", "e", "s">>),
                 Ingredient(<<"o", "l", "i", "v", "e">>, Int2Rat(6), "g",
                   <<"s", "u", "r", "g", "e", "l", "é", "s">>)>>,
               Some(Macros(600, Int2Rat(60), Rat(15001, 100), Int2Rat(20))))

\* recipes: a dict from recipe id to Recipe; one id may be missing from it.
RecipeTables ==
    { [id \in ids |-> LibraryRecipe(id)] :
          ids \in {RecipeIds, RecipeIds \ {"soupe"}} }

MealSlots ==
    { MealSlot(day, recipe_id, portions) :
          day \in Days, recipe_id \in RecipeIds, portions \in Portions }

RECURSIVE SeqsUpTo(_, _)
SeqsUpTo(S, n) ==
    IF n = 0 THEN {<<>>}
    ELSE LET shorter == SeqsUpTo(S, n - 1)
         IN  shorter \cup { Append(s, x) : s \in shorter, x \in S }

\* plan.slots of the MealPlans passed in.
Plans == SeqsUpTo(MealSlots, MaxSlots)

\* aggregate_ingredients never reads slot.day: plans whose slots are all of
\* one day stand for the others.
AggregatedPlans ==
    SeqsUpTo({ slot \in MealSlots : slot.day = "lundi" }, MaxSlots)

\* The ingredient names of the library, the empty name and a few more.
Names ==
    UNION { { LibraryRecipe(id).ingredients[k].name :
                  k \in DOMAIN LibraryRecipe(id).ingredients } :
            id \in RecipeIds }
    \cup { <<>>,
           <<"H", "u", "i", "l", "e", " ", "d", "e", " ", "c", "o", "c", "o">>,
           <<"E", "A", "U", "\t">>,
           <<"b", "e", "u", "r", "r", "e">>,
           <<"P", "o", "i", "v", "r", "e", " ", "n", "o", "i", "r">> }

\* Items of GroceryLists that callers build themselves.
ItemPool ==
    { GroceryListItem(<<"r", "i", "z">>, Int2Rat(2), "kg", "EPICERIE"),
      GroceryListItem(<<"A", "i", "l">>, Rat(1, 2), "", "LEGUMES"),
      GroceryListItem(<<" ", "k", "i", "w", "i">>, Int2Rat(3), "", "FRUITS"),
      GroceryListItem(<<"m", "i", "e", "l">>, Int2Rat(1), "pot", "AUTRE"),
      GroceryListItem(<<"p", "o", "i", "s">>, Rat(-2, 5), "g", "LEGUMES") }

MaxItems == 3

\* The macros lists validate_daily_protein and validate_daily_carbs are
\* called with: sums on, just under and just over each target.
MaxMacros == 3

MacrosPool ==
    { Macros(400, Int2Rat(30), Int2Rat(75), Int2Rat(10)),
      Macros(250, Rat(5999, 100), Int2Rat(50), Int2Rat(5)),
      Macros(600, Int2Rat(60), Rat(15001, 100), Int2Rat(20)),
      Macros(150, Rat(1, 100), Int2Rat(150), Int2Rat(0)),
      Macros(10, Int2Rat(0), Rat(1, 100), Int2Rat(1)) }

MacrosLists == SeqsUpTo(MacrosPool, MaxMacros)

\* The recipes is_high_carb_recipe is called with: the library, and one dish
\* at every pair of a servings count and macros around the threshold.
HighCarbRecipes ==
    { LibraryRecipe(id) : id \in RecipeIds }
    \cup { Recipe("plat", servings, <<>>, macros) :
               servings \in {1, 4},
               macros \in {None}
                   \cup { Some(Macros(300, Int2Rat(20), carbs_g, Int2Rat(8))) :
                              carbs_g \in { Int2Rat(0), Rat(4999, 100),
                                            Int2Rat(50), Rat(5001, 100),
                                            Int2Rat(200) } } }

\* The category labels _get_category is called with: those of the library,
\* keys of the mapping in other cases and between blanks, unmapped labels.
CategoryLabels ==
    UNION { { LibraryRecipe(id).ingredients[k].category :
                  k \in DOMAIN LibraryRecipe(id).ingredients } :
            id \in RecipeIds }
    \cup { <<>>,
           <<"L", "E", "G", "U", "M", "E", "S", " ">>,
           <<"\t", "b", "a", "s", "e", "\n">>,
           <<"b", "a", " ", "s", "e">>,
           <<"S", "u", "r", "g", "e", "l", "é", "s">>,
           <<"É", "P", "I", "C", "E", "R", "I", "E">>,
           <<" ", "V", "i", "a", "n", "d", "e", " ">>,
           <<"b", "o", "i", "s", "s", "o", "n", "s">>,
           <<"B", "o", "i", "s", "s", "o", "n">>,
           <<"b", "o", "c", "a", "l">>,
           <<" ">> }

\* The months get_seasonal_ingredients is called with: the twelve, and
\* those around them.
Months == (-2)..15

\* The arguments of generate.
Weeks == {"2026-W06"}

ConstraintsPool ==
    {None, Some(GeneratorConstraints(<<"lactose", "oeuf">>))}

\* The data a response may write: a plan with its recipes (a slot without
\* "portions", a recipe without "macros"), and data without "meal_plan".
JsonData ==
    { [recipes |->
           << [id |-> "curry", servings |-> 4,
               ingredients |->
                   << [name |-> <<"r", "i", "z">>, quantity |-> Int2Rat(300),
                       unit |-> "g", category |-> <<"b", "a", "s", "e">>] >>,
               macros |-> Some([calories |-> 400, protein_g |-> Int2Rat(30),
                                carbs_g |-> Int2Rat(75),
                                fat_g |-> Int2Rat(10)])],
              [id |-> "salade", servings |-> 3, ingredients |-> <<>>] >>,
       meal_plan |->
           [week |-> "2026-W06",
            slots |-> << [day |-> "lundi", recipe_id |-> "curry"],
                         [day |-> "mardi", recipe_id |-> "salade",
                          portions |-> 2] >>]],
      [recipes |-> <<>>] }

Responses ==
    { [fence |-> fence, prose |-> prose, inner |-> inner] :
          fence \in {"json", "bare", "none"},
          prose \in BOOLEAN,
          inner \in { [is_json |-> FALSE, data |-> None] }
                    \cup { [is_json |-> TRUE, data |-> data] :
                               data \in JsonData } }

\* What client.messages.create and message.content[0].text come to: an
\* error of the client, a message without content, or the text of a message.
ApiOutcomes ==
    { [raised |-> TRUE, error |-> error, response |-> None] :
          error \in {"APIError", "IndexError"} }
    \cup { [raised |-> FALSE, error |-> None, response |-> response] :
               response \in Responses }

\* The quantities _format_quantity is called with: whole ones, fractional
\* ones on both sides of a half and at a half, of both signs.
Quantities ==
    { Int2Rat(n) : n \in {-10, -1, 0, 1, 2, 75, 400, 1000} }
    \cup { Rat(333333, 1000), Rat(1, 2), Rat(3, 2), Rat(5, 2), Rat(2, 3),
           Rat(1, 3), Rat(100, 3), Rat(21, 2), Rat(1999, 2), Rat(999, 100),
           Rat(-2, 5), Rat(-1, 2), Rat(-3, 2), Rat(-8, 3), Rat(-1, 100) }

(***************************************************************************)
(* The operations.  Every function is pure and keeps nothing between    *)
(* calls, so a behaviour is one call from the idle state; by_category is   *)
(* a method of the GroceryList a call returned and follows that call.      *)
(***************************************************************************)
Init ==
    /\ call = [op |-> "none"]
    /\ ret = None

\* aggregate_ingredients(plan, recipes, exclude_pantry)
AggregateIngredients ==
    /\ call.op = "none"
    /\ \E slots \in AggregatedPlans, recipes \in RecipeTables,
          exclude_pantry \in BOOLEAN :
        /\ call' = [op |-> "aggregate_ingredients",
                    plan |-> [slots |-> slots],
                    recipes |-> recipes,
                    exclude_pantry |-> exclude_pantry]
        /\ ret' = aggregate_ingredients(slots, recipes, exclude_pantry)

\* validate_meal_plan_nutrition(plan, recipes, day)
ValidateMealPlanNutrition ==
    /\ call.op = "none"
    /\ \E slots \in Plans, recipes \in RecipeTables, day \in DaySelectors :
        /\ call' = [op |-> "validate_meal_plan_nutrition",
                    plan |-> [slots |-> slots],
                    recipes |-> recipes,
                    day |-> day]
        /\ ret' = validate_meal_plan_nutrition(slots, recipes, day)

\* _is_pantry_staple(name)
IsPantryStaple ==
    /\ call.op = "none"
    /\ \E name \in Names :
        /\ call' = [op |-> "_is_pantry_staple", name |-> name]
        /\ ret' = is_pantry_staple(name)

\* GroceryList(items=[...])
NewGroceryList ==
    /\ call.op = "none"
    /\ \E items \in SeqsUpTo(ItemPool, MaxItems) :
        /\ call' = [op |-> "GroceryList", items |-> items]
        /\ ret' = [raised |-> FALSE, items |-> items]

\* validate_daily_protein(daily_macros)
ValidateDailyProtein ==
    /\ call.op = "none"
    /\ \E daily_macros \in MacrosLists :
        /\ call' = [op |-> "validate_daily_protein",
                    daily_macros |-> daily_macros]
        /\ ret' = validate_daily_protein(daily_macros)

\* validate_daily_carbs(daily_macros)
ValidateDailyCarbs ==
    /\ call.op = "none"
    /\ \E daily_macros \in MacrosLists :
        /\ call' = [op |-> "validate_daily_carbs",
                    daily_macros |-> daily_macros]
        /\ ret' = validate_daily_carbs(daily_macros)

\* is_high_carb_recipe(recipe)
IsHighCarbRecipe ==
    /\ call.op = "none"
    /\ \E recipe \in HighCarbRecipes :
        /\ call' = [op |-> "is_high_carb_recipe", recipe |-> recipe]
        /\ ret' = is_high_carb_recipe(recipe)

\* _get_category(category_str)
GetCategory ==
    /\ call.op = "none"
    /\ \E category_str \in CategoryLabels :
        /\ call' = [op |-> "_get_category", category_str |-> category_str]
        /\ ret' = get_category(category_str)

\* get_seasonal_ingredients(month)
GetSeasonalIngredients ==
    /\ call.op = "none"
    /\ \E month \in Months :
        /\ call' = [op |-> "get_seasonal_ingredients", month |-> month]
        /\ ret' = get_seasonal_ingredients(month)

\* _format_quantity(quantity)
FormatQuantity ==
    /\ call.op = "none"
    /\ \E quantity \in Quantities :
        /\ call' = [op |-> "_format_quantity", quantity |-> quantity]
        /\ ret' = format_quantity(quantity)

\* format_grocery_list(grocery_list) on the list the last call returned
FormatGroceryList ==
    /\ call.op \in {"aggregate_ingredients", "GroceryList"}
    /\ ~ret.raised
    /\ call' = [op |-> "format_grocery_list",
                grocery_list |-> [items |-> ret.items]]
    /\ ret' = format_grocery_list(ret.items)

\* generator.generate(week, month, constraints), entered
Generate ==
    /\ call.op = "none"
    /\ \E week \in Weeks, month \in Months, constraints \in ConstraintsPool :
        /\ call' = GenerateEntered(week, month, constraints)
        /\ ret' = None

\* generate: prompt = self._build_prompt(week, month, constraints)
BuildPrompt ==
    /\ call.op = "generate"
    /\ call.pc = "_build_prompt"
    /\ LET next == BuildPromptStep(call)
       IN  call' = next[1] /\ ret' = next[2]

\* generate: response = self._call_claude(prompt)
CallClaude ==
    /\ call.op = "generate"
    /\ call.pc = "_call_claude"
    /\ \E outcome \in ApiOutcomes :
           LET next == CallClaudeStep(call, outcome)
           IN  call' = next[1] /\ ret' = next[2]

\* generate: return self._parse_response(response)
ParseResponse ==
    /\ call.op = "generate"
    /\ call.pc = "_parse_response"
    /\ LET next == ParseResponseStep(call)
       IN  call' = next[1] /\ ret' = next[2]

\* grocery_list.by_category() on the list the last call returned; the list
\* is left as it was (self).
ByCategory ==
    /\ call.op \in {"aggregate_ingredients", "GroceryList"}
    /\ ~ret.raised
    /\ call' = [op |-> "by_category", self |-> [items |-> ret.items]]
    /\ ret' = by_category(ret.items)

Next ==
    \/ AggregateIngredients
    \/ ValidateMealPlanNutrition
    \/ IsPantryStaple
    \/ NewGroceryList
    \/ ByCategory
    \/ ValidateDailyProtein
    \/ ValidateDailyCarbs
    \/ IsHighCarbRecipe
    \/ GetCategory
    \/ GetSeasonalIngredients
    \/ FormatQuantity
    \/ FormatGroceryList
    \/ Generate
    \/ BuildPrompt
    \/ CallClaude
    \/ ParseResponse

Spec == Init /\ [][Next]_vars

(***************************************************************************)
(* Two invocations at once.  In this second specification call[p] is the   *)
(* frame of invocation p (its arguments, its position pc, its loop          *)
(* indices and, as a record of what it did, the slots and ingredients it    *)
(* has taken up), and ret holds the results and the accumulator dict that   *)
(* each invocation of aggregate_ingredients creates.  A step is one pass    *)
(* of a loop or the statements after the loops.                            *)
(***************************************************************************)
Procs == {1, 2}

\* aggregate_ingredients(plan, recipes, exclude_pantry), entered:
\* "aggregated = {}" is of this invocation.
AggregateFrame(slots, recipes, exclude_pantry) ==
    [op |-> "aggregate_ingredients", plan |-> [slots |-> slots],
     recipes |-> recipes, exclude_pantry |-> exclude_pantry,
     pc |-> "for slot", i |-> 1, j |-> 1,
     slots_taken |-> <<>>, ingredients_taken |-> <<>>]

\* validate_meal_plan_nutrition(plan, recipes, day), entered.
ValidateFrame(slots, recipes, day) ==
    [op |-> "validate_meal_plan_nutrition", plan |-> [slots |-> slots],
     recipes |-> recipes, day |-> day,
     pc |-> "day_slots", i |-> 1, day_slots |-> <<>>,
     acc |-> [daily_macros |-> <<>>, high_carb_recipes |-> <<>>]]

\* The invocations that run together: plans that share ingredient names,
\* a recipe that is unknown, one without ingredients to keep, one of zero
\* servings after a slot that counts.
Frames ==
    { AggregateFrame(<<MealSlot("lundi", "curry", 2),
                       MealSlot("mardi", "soupe", 1)>>,
                     [id \in RecipeIds |-> LibraryRecipe(id)], TRUE),
      AggregateFrame(<<MealSlot("lundi", "soupe", 1),
                       MealSlot("lundi", "salade", 2)>>,
                     [id \in RecipeIds |-> LibraryRecipe(id)], FALSE),
      AggregateFrame(<<MealSlot("lundi", "soupe", 2),
                       MealSlot("lundi", "curry", 1)>>,
                     [id \in RecipeIds \ {"soupe"} |-> LibraryRecipe(id)],
                     FALSE),
      AggregateFrame(<<MealSlot("lundi", "tarte", 1),
                       MealSlot("lundi", "gratin", 1),
                       MealSlot("lundi", "curry", 1)>>,
                     [id \in RecipeIds |-> LibraryRecipe(id)], FALSE),
      AggregateFrame(<<>>, [id \in RecipeIds |-> LibraryRecipe(id)], TRUE),
      ValidateFrame(<<MealSlot("lundi", "curry", 2),
                      MealSlot("mardi", "soupe", 1),
                      MealSlot("lundi", "gratin", 1)>>,
                    [id \in RecipeIds |-> LibraryRecipe(id)], "lundi"),
      ValidateFrame(<<MealSlot("mardi", "tarte", 1),
                      MealSlot("mardi", "salade", 2)>>,
                    [id \in RecipeIds |-> LibraryRecipe(id)], "mardi") }

InterleavedInit ==
    /\ call \in [Procs -> Frames]
    /\ ret = [results |-> [p \in Procs |-> None],
              aggregated |-> [p \in Procs |-> <<>>]]

\* As the owner of the accumulator, one dict at module level for all.
AccumulatorOfModule(p) == 1

\* The accumulator dict invocation p works on: the one it created.
AccumulatorOf(p) == p

\* As the advance of the slot loop, staying on the same slot.
SameSlot(i) == i

\* The advance of "for slot in plan.slots" to the next slot.
NextSlot(i) == i + 1

\* "for slot in plan.slots": the next slot is taken up, and skipped for an
\* unknown recipe; the division raises out of the call for zero servings;
\* after the last slot come the statements after the loop.
AggregateSlot(p) ==
    /\ call[p].op = "aggregate_ingredients"
    /\ call[p].pc = "for slot"
    /\ LET frame == call[p]
           slots == frame.plan.slots
       IN  IF frame.i > Len(slots)
           THEN /\ call' = [call EXCEPT ![p].pc = "items"]
                /\ UNCHANGED ret
           ELSE LET recipe == RecipesGet(frame.recipes, slots[frame.i].recipe_id)
                    taken == Append(frame.slots_taken, frame.i)
                IN  IF IsNone(recipe)
                    THEN /\ call' = [call EXCEPT ![p].i = NextSlot(frame.i),
                                                 ![p].slots_taken = taken]
                         /\ UNCHANGED ret
                    ELSE IF DivisionRaises(slots[frame.i].portions,
                                           Get(recipe).servings)
                    THEN /\ call' = [call EXCEPT ![p].pc = "raised",
                                                 ![p].slots_taken = taken]
                         /\ ret' = [ret EXCEPT
                                        !.results[p] =
                                            Some([raised |-> TRUE,
                                                  items |-> <<>>])]
                    ELSE /\ call' = [call EXCEPT ![p].pc = "for ingredient",
                                                 ![p].j = 1,
                                                 ![p].slots_taken = taken]
                         /\ UNCHANGED ret

\* "for ingredient in recipe.ingredients": one ingredient is skipped or
\* accumulated; after the last one the slot loop goes on.
AggregateIngredient(p) ==
    /\ call[p].op = "aggregate_ingredients"
    /\ call[p].pc = "for ingredient"
    /\ LET frame == call[p]
           slot == frame.plan.slots[frame.i]
           recipe == frame.recipes[slot.recipe_id]
       IN  IF frame.j > Len(recipe.ingredients)
           THEN /\ call' = [call EXCEPT ![p].pc = "for slot",
                                        ![p].i = NextSlot(frame.i)]
                /\ UNCHANGED ret
           ELSE /\ call' = [call EXCEPT
                                ![p].j = frame.j + 1,
                                ![p].ingredients_taken =
                                    Append(@, <<frame.i, frame.j>>)]
                /\ ret' = [ret EXCEPT
                               !.aggregated[AccumulatorOf(p)] =
                                   IngredientStep(
                                       ret.aggregated[AccumulatorOf(p)],
                                       recipe.ingredients[frame.j],
                                       PortionMultiplier(slot.portions,
                                                         recipe.servings),
                                       frame.exclude_pantry)]

\* The statements after the loops: the items of the accumulator, sorted,
\* are returned.
AggregateReturn(p) ==
    /\ call[p].op = "aggregate_ingredients"
    /\ call[p].pc = "items"
    /\ LET aggregated == ret.aggregated[AccumulatorOf(p)]
           items == [k \in DOMAIN aggregated |->
                        GroceryListItem(aggregated[k].name,
                                        aggregated[k].quantity,
                                        aggregated[k].unit,
                                        aggregated[k].category)]
       IN  /\ call' = [call EXCEPT ![p].pc = "returned"]
           /\ ret' = [ret EXCEPT
                          !.results[p] = Some([raised |-> FALSE,
                                               items |-> SortItems(items)])]

\* day_slots = [slot for slot in plan.slots if slot.day == day]
ValidateDaySlots(p) ==
    /\ call[p].op = "validate_meal_plan_nutrition"
    /\ call[p].pc = "day_slots"
    /\ call' = [call EXCEPT
                    ![p].pc = "for slot",
                    ![p].day_slots =
                        SelectSeq(call[p].plan.slots,
                                  LAMBDA slot : slot.day = call[p].day)]
    /\ UNCHANGED ret

\* "for slot in day_slots": one pass of the loop.
ValidateSlot(p) ==
    /\ call[p].op = "validate_meal_plan_nutrition"
    /\ call[p].pc = "for slot"
    /\ LET frame == call[p]
       IN  IF frame.i > Len(frame.day_slots)
           THEN call' = [call EXCEPT ![p].pc = "results"]
           ELSE call' = [call EXCEPT
                             ![p].i = frame.i + 1,
                             ![p].acc = DayLoop(frame.acc,
                                                <<frame.day_slots[frame.i]>>,
                                                1, frame.recipes)]
    /\ UNCHANGED ret

\* The statements after the loop: both validations and the result.
ValidateReturn(p) ==
    /\ call[p].op = "validate_meal_plan_nutrition"
    /\ call[p].pc = "results"
    /\ LET acc == call[p].acc
           protein_result == validate_daily_protein(acc.daily_macros)
           carbs_result == validate_daily_carbs(acc.daily_macros)
       IN  /\ call' = [call EXCEPT ![p].pc = "returned"]
           /\ ret' = [ret EXCEPT
                          !.results[p] =
                              Some([protein_valid |-> protein_result.is_valid,
                                    carbs_valid |-> carbs_result.is_valid,
                                    protein_total |-> protein_result.total,
                                    carbs_total |-> carbs_result.total,
                                    high_carb_recipes |->
                                        IF acc.high_carb_recipes # <<>>
                                        THEN Some(acc.high_carb_recipes)
                                        ELSE None])]

\* One step of invocation p.
Step(p) ==
    \/ AggregateSlot(p)
    \/ AggregateIngredient(p)
    \/ AggregateReturn(p)
    \/ ValidateDaySlots(p)
    \/ ValidateSlot(p)
    \/ ValidateReturn(p)

InterleavedNext == \E p \in Procs : Step(p)

\* Each invocation runs on a thread of its own that is scheduled again and
\* again: a step that stays possible is taken.
Interleaved ==
    /\ InterleavedInit
    /\ [][InterleavedNext]_vars
    /\ WF_vars(Step(1))
    /\ WF_vars(Step(2))

(***************************************************************************)
(* float: IEEE 754 binary64, round to nearest, ties to even.  A natural    *)
(* number is the sequence of its bits from the lowest, without high zeros; *)
(* a float >= 0 is m * 2^e with m odd, or zero.  The quantities of a       *)
(* grocery list stay far from overflow and from the subnormal range.       *)
(***************************************************************************)
\* sys.float_info.mant_dig
MantissaBits == 53

\* The low n bits of k, from the lowest.
LowBits(k, n) == [i \in 1..n |-> (k \div (2 ^ (i - 1))) % 2]

\* The bits without the zeros above the highest one.
StripHigh(bits) ==
    IF \A i \in DOMAIN bits : bits[i] = 0 THEN <<>>
    ELSE SubSeq(bits, 1,
                CHOOSE i \in DOMAIN bits :
                    bits[i] = 1 /\ \A j \in (i + 1)..Len(bits) : bits[j] = 0)

\* The bits of a natural number below 2^31.
BitsOfNat(n) == StripHigh(LowBits(n, 31))

\* The number of up to 15 bits.
RECURSIVE ChunkValue(_)
ChunkValue(bits) ==
    IF bits = <<>> THEN 0 ELSE Head(bits) + 2 * ChunkValue(Tail(bits))

\* The lowest 15 bits, and the bits above them.
LowChunk(bits) == SubSeq(bits, 1, IF Len(bits) < 15 THEN Len(bits) ELSE 15)

HighChunks(bits) == SubSeq(bits, 16, Len(bits))

\* a + b + carry, 15 bits at a time; the top chunk may end in zeros.
RECURSIVE ChunksAdd(_, _, _)
ChunksAdd(a, b, carry) ==
    IF b = <<>> /\ carry = 0 THEN a
    ELSE IF a = <<>> /\ carry = 0 THEN b
    ELSE LET sum == ChunkValue(LowChunk(a)) + ChunkValue(LowChunk(b)) + carry
         IN  LowBits(sum % 32768, 15)
                 \o ChunksAdd(HighChunks(a), HighChunks(b), sum \div 32768)

BitsAdd(a, b) == StripHigh(ChunksAdd(a, b, 0))

\* a * k + carry for k and carry below 2^15, 15 bits of a at a time.
RECURSIVE ChunksMulSmall(_, _, _)
ChunksMulSmall(a, k, carry) ==
    IF a = <<>> THEN LowBits(carry, 15)
    ELSE LET product == ChunkValue(LowChunk(a)) * k + carry
         IN  LowBits(product % 32768, 15)
                 \o ChunksMulSmall(HighChunks(a), k, product \div 32768)

\* a * b, 15 bits of b at a time.
RECURSIVE BitsMul(_, _)
BitsMul(a, b) ==
    IF a = <<>> \/ b = <<>> THEN <<>>
    ELSE BitsAdd(StripHigh(ChunksMulSmall(a, ChunkValue(LowChunk(b)), 0)),
                 LET high == BitsMul(a, HighChunks(b))
                 IN  IF high = <<>> THEN <<>> ELSE LowBits(0, 15) \o high)

Zeros(n) == [i \in 1..n |-> 0]

FloatZero == [m |-> <<>>, e |-> 0]

\* bits * 2^e with the low zeros of bits moved into the exponent.
Canonical(bits, e) ==
    IF bits = <<>> THEN FloatZero
    ELSE LET low == CHOOSE i \in DOMAIN bits :
                        bits[i] = 1 /\ \A j \in 1..(i - 1) : bits[j] = 0
         IN  [m |-> SubSeq(bits, low, Len(bits)), e |-> e + low - 1]

\* The float nearest to bits * 2^e (plus, with sticky, a fraction of the
\* lowest bit that is not zero): a value between two floats goes to the
\* nearer, a value half-way to the one whose mantissa is even.
RoundToFloat(bits, e, sticky) ==
    IF Len(bits) <= MantissaBits THEN Canonical(bits, e)
    ELSE LET k == Len(bits) - MantissaBits
             kept == SubSeq(bits, k + 1, Len(bits))
             rest == sticky \/ \E i \in 1..(k - 1) : bits[i] = 1
             up == bits[k] = 1 /\ (rest \/ kept[1] = 1)
         IN  Canonical(IF up THEN BitsAdd(kept, <<1>>) ELSE kept, e + k)

\* As the float addition, keeping the left operand (no "+" at all).
FloatAddKeepsLeft(x, y) == x

\* x + y on floats: the exact sum, rounded once.
FloatAdd(x, y) ==
    IF x.m = <<>> THEN y
    ELSE IF y.m = <<>> THEN x
    ELSE LET e == IF x.e <= y.e THEN x.e ELSE y.e
         IN  RoundToFloat(BitsAdd(Zeros(x.e - e) \o x.m,
                                  Zeros(y.e - e) \o y.m),
                          e, FALSE)

\* x * y on floats: the exact product, rounded once.
FloatMul(x, y) ==
    IF Len(x.m) >= Len(y.m)
    THEN RoundToFloat(BitsMul(x.m, y.m), x.e + y.e, FALSE)
    ELSE RoundToFloat(BitsMul(y.m, x.m), x.e + y.e, FALSE)

\* The first 15 * n bits of r / s after the point (r < s < 2^15), from the
\* lowest, 15 bits at a time, and what is left of r.
RECURSIVE FractionBits(_, _, _)
FractionBits(r, s, n) ==
    IF n = 0 THEN [bits |-> <<>>, rem |-> r]
    ELSE LET next == FractionBits((r * 32768) % s, s, n - 1)
         IN  [bits |-> next.bits \o LowBits((r * 32768) \div s, 15),
              rem |-> next.rem]

\* p / s on int (p >= 0, 0 < s < 2^15): the float nearest to the quotient.
\* 75 bits after the point leave a rounding bit below the mantissa of every
\* such quotient.
IntTrueDiv(p, s) ==
    IF p % s = 0 THEN Canonical(BitsOfNat(p \div s), 0)
    ELSE LET fraction == FractionBits(p % s, s, 5)
         IN  RoundToFloat(StripHigh(fraction.bits \o BitsOfNat(p \div s)),
                          -75, fraction.rem # 0)

\* The float a quantity of the recipes is: the one nearest to it.
FloatOfQuantity(quantity) == IntTrueDiv(quantity.num, quantity.den)

(***************************************************************************)
(* aggregate_ingredients on floats, for a plan and a reordering of it.     *)
(***************************************************************************)
\* The if/else on "normalized_name in aggregated", "+=" being on floats.
FloatAccumulate(aggregated, normalized_name, ingredient, quantity) ==
    IF \E k \in DOMAIN aggregated : aggregated[k].key = normalized_name
    THEN LET k == CHOOSE k \in DOMAIN aggregated :
                      aggregated[k].key = normalized_name
         IN  [aggregated EXCEPT ![k].quantity = FloatAdd(@, quantity)]
    ELSE Append(aggregated,
                [key |-> normalized_name,
                 name |-> ingredient.name,
                 quantity |-> quantity,
                 unit |-> ingredient.unit,
                 category |-> get_category(ingredient.category)])

\* One pass of the body of "for ingredient in recipe.ingredients":
\* quantity = ingredient.quantity * portion_multiplier is a float product.
FloatIngredientStep(aggregated, ingredient, portion_multiplier, exclude_pantry) ==
    IF SkipIngredient(exclude_pantry, ingredient)
    THEN aggregated
    ELSE FloatAccumulate(aggregated,
                         normalize_ingredient_name(ingredient.name),
                         ingredient,
                         FloatMul(FloatOfQuantity(ingredient.quantity),
                                  portion_multiplier))

RECURSIVE FloatIngredientLoop(_, _, _, _, _)
FloatIngredientLoop(aggregated, ingredients, j, portion_multiplier, exclude_pantry) ==
    IF j > Len(ingredients) THEN aggregated
    ELSE FloatIngredientLoop(
             FloatIngredientStep(aggregated, ingredients[j],
                                 portion_multiplier, exclude_pantry),
             ingredients, j + 1, portion_multiplier, exclude_pantry)

\* "for slot in plan.slots", from slot i on, for recipes of servings >= 0:
\* portion_multiplier = slot.portions / recipe.servings is a float.
RECURSIVE FloatSlotLoop(_, _, _, _, _)
FloatSlotLoop(aggregated, slots, i, recipes, exclude_pantry) ==
    IF i > Len(slots) THEN [raised |-> FALSE, aggregated |-> aggregated]
    ELSE LET slot == slots[i]
             recipe == RecipesGet(recipes, slot.recipe_id)
         IN  IF IsNone(recipe)
             THEN FloatSlotLoop(aggregated, slots, i + 1, recipes,
                                exclude_pantry)
             ELSE IF DivisionRaises(slot.portions, Get(recipe).servings)
             THEN RaiseZeroDivisionError(aggregated)
             ELSE FloatSlotLoop(
                      FloatIngredientLoop(aggregated, Get(recipe).ingredients,
                                          1,
                                          IntTrueDiv(slot.portions,
                                                     Get(recipe).servings),
                                          exclude_pantry),
                      slots, i + 1, recipes, exclude_pantry)

\* aggregate_ingredients(plan, recipes, exclude_pantry) with the quantities
\* as the floats they are.
aggregate_ingredients_float(slots, recipes, exclude_pantry) ==
    LET done == FloatSlotLoop(<<>>, slots, 1, recipes, exclude_pantry)
        items == [k \in DOMAIN done.aggregated |->
                     GroceryListItem(done.aggregated[k].name,
                                     done.aggregated[k].quantity,
                                     done.aggregated[k].unit,
                                     done.aggregated[k].category)]
    IN  IF done.raised
        THEN [raised |-> TRUE, items |-> <<>>]
        ELSE [raised |-> FALSE, items |-> SortItems(items)]

\* The longest plan that is reordered.
ReorderedSlots == 3

\* The orders of n slots: the permutations of 1..n.
Orders(n) ==
    { order \in [1..n -> 1..n] : \A a, b \in 1..n : a # b => order[a] # order[b] }

\* The recipes of positive servings; "soupe" is missing from the table.
ReorderedRecipes == [id \in {"curry", "salade"} |-> LibraryRecipe(id)]

ReorderedPlans ==
    SeqsUpTo({ MealSlot("lundi", "curry", 2), MealSlot("lundi", "salade", 1),
               MealSlot("lundi", "salade", 2), MealSlot("lundi", "soupe", 1) },
             ReorderedSlots)

\* The calls made: a plan, and the same slots in another order.
ReorderedInit ==
    /\ \E slots \in ReorderedPlans, exclude_pantry \in BOOLEAN :
           \E order \in Orders(Len(slots)) :
               call = [op |-> "entered",
                       plan |-> [slots |-> slots],
                       reordered |-> [slots |-> [k \in DOMAIN slots |->
                                                     slots[order[k]]]],
                       recipes |-> ReorderedRecipes,
                       exclude_pantry |-> exclude_pantry]
    /\ ret = None

\* aggregate_ingredients on the plan and on the reordered plan.
AggregateBothOrders ==
    /\ call.op = "entered"
    /\ call' = [call EXCEPT !.op = "aggregate_ingredients"]
    /\ ret' = [raised |-> FALSE,
               first |-> aggregate_ingredients_float(
                             call.plan.slots, call.recipes,
                             call.exclude_pantry),
               second |-> aggregate_ingredients_float(
                              call.reordered.slots, call.recipes,
                              call.exclude_pantry)]

ReorderedNext == AggregateBothOrders

Reordered == ReorderedInit /\ [][ReorderedNext]_vars

(***************************************************************************)
(* Vocabulary of the properties of aggregate_ingredients.                  *)
(***************************************************************************)
AggCall == call.op = "aggregate_ingredients"

AggReturned == AggCall /\ ~ret.raised

\* The slots of the call whose recipe_id is a key of the recipe table.
ResolvedSlots ==
    { i \in DOMAIN call.plan.slots :
          call.plan.slots[i].recipe_id \in DOMAIN call.recipes }

RecipeOfSlot(i) == call.recipes[call.plan.slots[i].recipe_id]

\* An occurrence <<i, j>>: ingredient j of the recipe of resolved slot i.
Occurrences ==
    UNION { { <<i, j>> : j \in DOMAIN RecipeOfSlot(i).ingredients } :
            i \in ResolvedSlots }

OccIngredient(o) == RecipeOfSlot(o[1]).ingredients[o[2]]

OccNormalized(o) == normalize_ingredient_name(OccIngredient(o).name)

OccStaple(o) == is_pantry_staple(OccIngredient(o).name)

\* The occurrences the call does not exclude.
KeptOccurrences ==
    { o \in Occurrences : ~(call.exclude_pantry /\ OccStaple(o)) }

ItemNormalized(item) == normalize_ingredient_name(item.ingredient_name)

\* ingredient.quantity * slot.portions / recipe.servings of one occurrence.
OccScaled(o) ==
    Rat(OccIngredient(o).quantity.num * call.plan.slots[o[1]].portions,
        OccIngredient(o).quantity.den * RecipeOfSlot(o[1]).servings)

RECURSIVE SumScaled(_)
SumScaled(occs) ==
    IF occs = {} THEN Int2Rat(0)
    ELSE LET o == CHOOSE o \in occs : TRUE
         IN  RatAdd(OccScaled(o), SumScaled(occs \ {o}))

\* C1: the list aggregate_ingredients returns holds exactly one item per
\* distinct normalized name among the non-excluded ingredients of the
\* resolved slots: no two items share a normalized name, and the normalized
\* names of the items are those of the kept occurrences.
C1_OneItemPerNormalizedName ==
    AggReturned =>
        LET names == [p \in DOMAIN ret.items |-> ItemNormalized(ret.items[p])]
        IN  /\ \A p, q \in DOMAIN names : p # q => names[p] # names[q]
            /\ { names[p] : p \in DOMAIN names }
                   = { OccNormalized(o) : o \in KeptOccurrences }

\* C1 happens: two kept occurrences with different names as written and the
\* same normalized name were merged, beside an item of another name.
C1_Witness ==
    /\ AggReturned
    /\ \E o1, o2 \in KeptOccurrences :
           /\ OccIngredient(o1).name # OccIngredient(o2).name
           /\ OccNormalized(o1) = OccNormalized(o2)
    /\ Len(ret.items) >= 2

SameRecipeRepeated ==
    /\ AggReturned
    /\ call.plan.slots # <<>>
    /\ \A i \in DOMAIN call.plan.slots :
           /\ i \in ResolvedSlots
           /\ call.plan.slots[i].recipe_id = call.plan.slots[1].recipe_id
           /\ call.plan.slots[i].portions = call.plan.slots[1].portions

\* The item that stands for occurrence o.
ItemsOf(o) ==
    The({ { p \in DOMAIN ret.items :
                ItemNormalized(ret.items[p]) = normalized } :
              normalized \in {OccNormalized(o)} })

\* N * P * quantity / servings, for a quantity given as a rational.
NTimesPTimes(quantity) ==
    Rat(Len(call.plan.slots) * call.plan.slots[1].portions * quantity.num,
        quantity.den * RecipeOfSlot(1).servings)

RECURSIVE SumQuantities(_)
SumQuantities(js) ==
    IF js = {} THEN Int2Rat(0)
    ELSE LET j == CHOOSE j \in js : TRUE
         IN  RatAdd(RecipeOfSlot(1).ingredients[j].quantity,
                    SumQuantities(js \ {j}))

\* The ingredients of the repeated recipe that share the normalized name of
\* its ingredient j.
SameNameIngredients(j) ==
    { k \in DOMAIN RecipeOfSlot(1).ingredients :
          normalize_ingredient_name(RecipeOfSlot(1).ingredients[k].name)
              = normalize_ingredient_name(RecipeOfSlot(1).ingredients[j].name) }

C4_PantryExclusion ==
    AggReturned =>
        /\ call.exclude_pantry =>
               /\ \A p \in DOMAIN ret.items :
                      ~is_pantry_staple(ret.items[p].ingredient_name)
               /\ \A o \in Occurrences : ~OccStaple(o) => ItemsOf(o) # {}
        /\ ~call.exclude_pantry =>
               \A o \in Occurrences : ItemsOf(o) # {}

\* C4 happens: staples beside other ingredients, excluded by the flag.
C4_Witness ==
    /\ AggReturned
    /\ call.exclude_pantry
    /\ \E o1, o2 \in Occurrences : OccStaple(o1) /\ ~OccStaple(o2)
    /\ ret.items # <<>>

\* needle occurs in hay at some offset, character by character.
Contains(hay, needle) ==
    \E off \in 0..(Len(hay) - Len(needle)) :
        \A k \in 1..Len(needle) : hay[off + k] = needle[k]

\* C5: _is_pantry_staple(name) answers true iff some staple is a substring
\* of the normalized name or the normalized name is a substring of some
\* staple, and always answers.
C5_BidirectionalSubstring ==
    call.op = "_is_pantry_staple" =>
        /\ ret \in BOOLEAN
        /\ ret = (\E s \in PANTRY_STAPLES :
                      \/ Contains(normalize_ingredient_name(call.name), s)
                      \/ Contains(s, normalize_ingredient_name(call.name)))

\* C5 happens: a name that is no staple but is part of one is accepted.
C5_Witness ==
    /\ call.op = "_is_pantry_staple"
    /\ ret = TRUE
    /\ \A s \in PANTRY_STAPLES :
           ~Contains(normalize_ingredient_name(call.name), s)
    /\ normalize_ingredient_name(call.name) # <<>>

\* plan.slots without the slots whose recipe_id is no key of the table.
KnownSlots(slots, recipes) ==
    SelectSeq(slots, LAMBDA slot : slot.recipe_id \in DOMAIN recipes)

\* C6: a slot whose recipe_id is absent from the recipe table contributes
\* nothing and raises nothing: aggregate_ingredients and
\* validate_meal_plan_nutrition return on a plan what they return on the plan
\* without those slots, and a plan of such slots only gives the empty result.
C6_UnknownRecipeSkipped ==
    /\ AggCall =>
           /\ ret = aggregate_ingredients(
                        KnownSlots(call.plan.slots, call.recipes),
                        call.recipes, call.exclude_pantry)
           /\ ResolvedSlots = {} => ret = [raised |-> FALSE, items |-> <<>>]
    /\ call.op = "validate_meal_plan_nutrition" =>
           /\ ret = validate_meal_plan_nutrition(
                        KnownSlots(call.plan.slots, call.recipes),
                        call.recipes, call.day)
           /\ ResolvedSlots = {} =>
                  /\ ret.protein_total = Int2Rat(0)
                  /\ ret.carbs_total = Int2Rat(0)
                  /\ IsNone(ret.high_carb_recipes)

\* C6 happens: a slot of an unknown recipe stands before a slot of a known
\* one, and the call returns the items of the known one.
C6_Witness ==
    /\ AggReturned
    /\ Len(call.plan.slots) >= 2
    /\ 1 \notin ResolvedSlots
    /\ 2 \in ResolvedSlots
    /\ ret.items # <<>>

Rank(order, category) == CHOOSE i \in DOMAIN order : order[i] = category

\* The categories in ascending order of their value strings.
CategoriesByValue ==
    <<"AUTRE", "BOISSONS", "EPICERIE", "FRAIS", "FRUITS", "LEGUMES",
      "PROTEINES", "SURGELES">>

\* C8 as stated: the returned items are ordered by category in the order
\* LEGUMES, FRUITS, PROTEINES, FRAIS, EPICERIE, BOISSONS, SURGELES, AUTRE.
C8_AsStated ==
    AggReturned =>
        \A p, q \in DOMAIN ret.items :
            p < q => Rank(category_order, ret.items[p].category)
                         <= Rank(category_order, ret.items[q].category)

\* C8: the returned items are ordered by category in ascending order of the
\* category's value string: AUTRE, BOISSONS, EPICERIE, FRAIS, FRUITS,
\* LEGUMES, PROTEINES, SURGELES.
C8_OrderedByCategoryValue ==
    AggReturned =>
        \A p, q \in DOMAIN ret.items :
            p < q => Rank(CategoriesByValue, ret.items[p].category)
                         <= Rank(CategoriesByValue, ret.items[q].category)

\* C8 happens: a list of three categories or more, among them the first and
\* the last of category_order.
C8_Witness ==
    /\ AggReturned
    /\ Cardinality({ ret.items[p].category : p \in DOMAIN ret.items }) >= 3
    /\ \E p, q \in DOMAIN ret.items :
           ret.items[p].category = "LEGUMES" /\ ret.items[q].category = "AUTRE"

\* C9 as stated: two returned items of one category stand in strictly
\* ascending order of their lower-cased and trimmed display names.
C9_AsStated ==
    AggReturned =>
        \A p, q \in DOMAIN ret.items :
            (p < q /\ ret.items[p].category = ret.items[q].category)
                => StrLess(ItemNormalized(ret.items[p]),
                           ItemNormalized(ret.items[q]))

\* C9: two returned items of one category stand in strictly ascending
\* code-point order of their lower-cased display names, surrounding
\* whitespace included.
C9_OrderedByLowerName ==
    AggReturned =>
        \A p, q \in DOMAIN ret.items :
            (p < q /\ ret.items[p].category = ret.items[q].category)
                => StrLess(StrLower(ret.items[p].ingredient_name),
                           StrLower(ret.items[q].ingredient_name))

\* C9 happens: two items of one category, the display name of one of them
\* having leading or trailing whitespace.
C9_Witness ==
    /\ AggReturned
    /\ \E p, q \in DOMAIN ret.items :
           /\ p < q
           /\ ret.items[p].category = ret.items[q].category
           /\ \/ StrStrip(ret.items[p].ingredient_name)
                      # ret.items[p].ingredient_name
              \/ StrStrip(ret.items[q].ingredient_name)
                      # ret.items[q].ingredient_name

\* The number of places of a list that hold the value v.
Count(list, v) == Cardinality({ k \in DOMAIN list : list[k] = v })

RECURSIVE SumOfBucketSizes(_, _)
SumOfBucketSizes(buckets, categories) ==
    IF categories = {} THEN 0
    ELSE LET c == CHOOSE c \in categories : TRUE
         IN  Len(buckets[c]) + SumOfBucketSizes(buckets, categories \ {c})

\* C10: by_category() is a partition of the items: every bucket holds items
\* of its own category only, every item is in the bucket of its category as
\* many times as in the list (none omitted, none duplicated), and the bucket
\* sizes sum to total_items, the length of the list.
C10_ByCategoryPartition ==
    call.op = "by_category" =>
        LET items == call.self.items
            bucket(c) == IF c \in DOMAIN ret THEN ret[c] ELSE <<>>
        IN  /\ \A c \in DOMAIN ret : \A k \in DOMAIN ret[c] :
                   /\ ret[c][k].category = c
                   /\ Count(items, ret[c][k]) >= 1
            /\ \A k \in DOMAIN items :
                   Count(bucket(items[k].category), items[k])
                       = Count(items, items[k])
            /\ SumOfBucketSizes(ret, DOMAIN ret) = total_items(items)
            /\ total_items(items) = Len(items)

\* C10 happens: a list grouped into two buckets or more, one of them with
\* two items or more.
C10_Witness ==
    /\ call.op = "by_category"
    /\ Cardinality(DOMAIN ret) >= 2
    /\ \E c \in DOMAIN ret : Len(ret[c]) >= 2

(***************************************************************************)
(* Properties of planner/nutrition.py.                                     *)
(***************************************************************************)
\* The sum of one field over the entries of a macros list at the indices S.
RECURSIVE SumOfField(_, _, _)
SumOfField(macros_list, field, S) ==
    IF S = {} THEN Int2Rat(0)
    ELSE LET i == CHOOSE i \in S : TRUE
         IN  RatAdd(macros_list[i][field],
                    SumOfField(macros_list, field, S \ {i}))

\* C11: validate_daily_protein is total on every macros list, the empty one
\* included: total is the sum of protein_g, is_valid is total >= 60, deficit
\* is max(0, 60 - total), target is 60 (and excess 0); a total of exactly 60
\* is valid, a total of 59.99 is invalid with a deficit of 0.01.
C11_DailyProtein ==
    call.op = "validate_daily_protein" =>
        LET total == SumOfField(call.daily_macros, "protein_g",
                                DOMAIN call.daily_macros)
        IN  /\ ret.total = total
            /\ ret.is_valid = (total.num >= 60 * total.den)
            /\ ret.deficit = (IF total.num >= 60 * total.den THEN Rat(0, 1)
                              ELSE RatSub(Rat(60, 1), total))
            /\ ret.target = Rat(60, 1)
            /\ ret.excess = Rat(0, 1)
            /\ total = Rat(60, 1) => ret.is_valid
            /\ total = Rat(5999, 100) =>
                   ~ret.is_valid /\ ret.deficit = Rat(1, 100)
            /\ call.daily_macros = <<>> =>
                   ret.total = Rat(0, 1) /\ ~ret.is_valid
                       /\ ret.deficit = Rat(60, 1)

\* C11 happens: a list of two entries or more totals exactly 60 g and is
\* valid with no deficit.
C11_Witness ==
    /\ call.op = "validate_daily_protein"
    /\ Len(call.daily_macros) >= 2
    /\ ret.total = Rat(60, 1)
    /\ ret.is_valid
    /\ ret.deficit = Rat(0, 1)

\* C12: validate_daily_carbs is total on every macros list: total is the
\* sum of carbs_g, is_valid is total <= 150, excess is max(0, total - 150),
\* target is 150 (and deficit 0); a total of exactly 150 is valid, a total
\* of 150.01 is invalid with an excess of 0.01.
C12_DailyCarbs ==
    call.op = "validate_daily_carbs" =>
        LET total == SumOfField(call.daily_macros, "carbs_g",
                                DOMAIN call.daily_macros)
        IN  /\ ret.total = total
            /\ ret.is_valid = (total.num <= 150 * total.den)
            /\ ret.excess = (IF total.num <= 150 * total.den THEN Rat(0, 1)
                             ELSE RatSub(total, Rat(150, 1)))
            /\ ret.target = Rat(150, 1)
            /\ ret.deficit = Rat(0, 1)
            /\ total = Rat(150, 1) => ret.is_valid
            /\ total = Rat(15001, 100) =>
                   ~ret.is_valid /\ ret.excess = Rat(1, 100)
            /\ call.daily_macros = <<>> =>
                   ret.total = Rat(0, 1) /\ ret.is_valid
                       /\ ret.excess = Rat(0, 1)

\* C12 happens: a list of two entries or more totals exactly 150 g and is
\* valid with no excess.
C12_Witness ==
    /\ call.op = "validate_daily_carbs"
    /\ Len(call.daily_macros) >= 2
    /\ ret.total = Rat(150, 1)
    /\ ret.is_valid
    /\ ret.excess = Rat(0, 1)

\* C13: is_high_carb_recipe is false for a recipe without macros and
\* otherwise true exactly when carbs_g > 50, strictly: 50 is not flagged,
\* 50.01 is; the answer is that of the per-recipe carbs, whatever the
\* servings (and the other fields) of the recipe.
C13_HighCarbStrict ==
    call.op = "is_high_carb_recipe" =>
        LET recipe == call.recipe
        IN  /\ IsNone(recipe.macros) => ret = FALSE
            /\ ~IsNone(recipe.macros) =>
                   LET carbs_g == Get(recipe.macros).carbs_g
                   IN  /\ ret = (carbs_g.num > 50 * carbs_g.den)
                       /\ carbs_g = Rat(50, 1) => ret = FALSE
                       /\ carbs_g = Rat(5001, 100) => ret = TRUE
            /\ \A other \in HighCarbRecipes :
                   other.macros = recipe.macros =>
                       is_high_carb_recipe(other) = ret

\* C13 happens: a recipe of several servings with carbs_g of exactly 50 is
\* not flagged.
C13_Witness ==
    /\ call.op = "is_high_carb_recipe"
    /\ call.recipe.servings > 1
    /\ ~IsNone(call.recipe.macros)
    /\ Get(call.recipe.macros).carbs_g = Rat(50, 1)
    /\ ret = FALSE

\* The call is validate_meal_plan_nutrition (it always returns).
NutritionCall == call.op = "validate_meal_plan_nutrition"

\* The indices of the slots of the validated day whose recipe is in the
\* table and has macros.
ContributingSlots ==
    { i \in DOMAIN call.plan.slots :
          /\ call.plan.slots[i].day = call.day
          /\ call.plan.slots[i].recipe_id \in DOMAIN call.recipes
          /\ ~IsNone(call.recipes[call.plan.slots[i].recipe_id].macros) }

\* The sum over the slots at the indices S of recipe.macros[field] times
\* slot.portions.
RECURSIVE SumPortioned(_, _, _, _)
SumPortioned(slots, recipes, field, S) ==
    IF S = {} THEN Int2Rat(0)
    ELSE LET i == CHOOSE i \in S : TRUE
             per_recipe == Get(recipes[slots[i].recipe_id].macros)[field]
         IN  RatAdd(Rat(per_recipe.num * slots[i].portions, per_recipe.den),
                    SumPortioned(slots, recipes, field, S \ {i}))

\* C14: protein_total and carbs_total are the sums, over exactly the slots
\* of the validated day whose recipe is in the table and has macros, of the
\* recipe's protein_g and carbs_g times slot.portions, with no division by
\* servings; the other slots contribute nothing.
C14_TotalsScaledByPortions ==
    NutritionCall =>
        /\ ret.protein_total =
               SumPortioned(call.plan.slots, call.recipes, "protein_g",
                            ContributingSlots)
        /\ ret.carbs_total =
               SumPortioned(call.plan.slots, call.recipes, "carbs_g",
                            ContributingSlots)

\* C14 happens: a plan with a slot of another day and a slot of the day at
\* two portions of a recipe of four servings, counted at twice its macros.
C14_Witness ==
    /\ NutritionCall
    /\ \E i, j \in DOMAIN call.plan.slots :
          /\ i \in ContributingSlots
          /\ call.plan.slots[i].portions = 2
          /\ call.recipes[call.plan.slots[i].recipe_id].servings = 4
          /\ call.plan.slots[j].day # call.day
          /\ call.plan.slots[j].recipe_id \in DOMAIN call.recipes
          /\ ~IsNone(call.recipes[call.plan.slots[j].recipe_id].macros)
    /\ ret.protein_total = Rat(60, 1)
    /\ ret.carbs_total = Rat(150, 1)

\* The day selector matches no slot of the plan.
NoSlotOfTheDay ==
    \A i \in DOMAIN call.plan.slots : call.plan.slots[i].day # call.day

\* C15 as stated: a day selector that matches no slot gives totals of 0 and
\* a valid result.
C15_AsStated ==
    (NutritionCall /\ NoSlotOfTheDay) =>
        /\ ret.protein_total = Rat(0, 1)
        /\ ret.carbs_total = Rat(0, 1)
        /\ is_valid(ret)

\* C15: a day selector that matches no slot raises nothing and gives totals
\* of 0, which are under the protein minimum: protein_valid is false,
\* carbs_valid is true, is_valid is false and high_carb_recipes is None.
C15_NoSlotIsInvalid ==
    (NutritionCall /\ NoSlotOfTheDay) =>
        /\ ret.protein_total = Rat(0, 1)
        /\ ret.carbs_total = Rat(0, 1)
        /\ ~ret.protein_valid
        /\ ret.carbs_valid
        /\ ~is_valid(ret)
        /\ IsNone(ret.high_carb_recipes)

\* C15 happens: a plan of two slots with macros validated for a day that is
\* no day name.
C15_Witness ==
    /\ NutritionCall
    /\ NoSlotOfTheDay
    /\ call.day \notin Days
    /\ Len(call.plan.slots) = 2
    /\ \A i \in DOMAIN call.plan.slots :
           /\ call.plan.slots[i].recipe_id \in DOMAIN call.recipes
           /\ ~IsNone(call.recipes[call.plan.slots[i].recipe_id].macros)
    /\ ~is_valid(ret)

\* C16: is_valid is protein_valid and carbs_valid, protein_valid being
\* protein_total >= 60 and carbs_valid being carbs_total <= 150; the
\* high-carb flags have no part in it.
C16_ValidIsBothThresholds ==
    NutritionCall =>
        /\ is_valid(ret) = (ret.protein_valid /\ ret.carbs_valid)
        /\ ret.protein_valid =
               (ret.protein_total.num >= 60 * ret.protein_total.den)
        /\ ret.carbs_valid =
               (ret.carbs_total.num <= 150 * ret.carbs_total.den)
        /\ is_valid(ret) =
               is_valid([ret EXCEPT !.high_carb_recipes = None])

\* C16 happens: a day with a flagged recipe that meets both thresholds is
\* valid.
C16_Witness ==
    /\ NutritionCall
    /\ ~IsNone(ret.high_carb_recipes)
    /\ ret.protein_valid
    /\ ret.carbs_valid
    /\ is_valid(ret)

\* The slots, in plan order, of the validated day whose recipe is in the
\* table, has macros and has carbs_g > 50 per recipe.
HighCarbSlots ==
    SelectSeq(call.plan.slots,
              LAMBDA slot :
                  /\ slot.day = call.day
                  /\ slot.recipe_id \in DOMAIN call.recipes
                  /\ ~IsNone(call.recipes[slot.recipe_id].macros)
                  /\ LET carbs_g ==
                             Get(call.recipes[slot.recipe_id].macros).carbs_g
                     IN  carbs_g.num > 50 * carbs_g.den)

\* C17: high_carb_recipes is None when no slot of the day resolves to a
\* recipe with macros and carbs_g > 50, and otherwise the recipe ids of
\* those slots in plan order, decided on the unscaled carbs_g, one entry per
\* slot.
C17_HighCarbListInSlotOrder ==
    NutritionCall =>
        IF HighCarbSlots = <<>>
        THEN IsNone(ret.high_carb_recipes)
        ELSE /\ ~IsNone(ret.high_carb_recipes)
             /\ Get(ret.high_carb_recipes) =
                    [k \in DOMAIN HighCarbSlots |->
                         call.recipes[HighCarbSlots[k].recipe_id].id]

\* C17 happens: a recipe used in two slots of the day is listed twice.
C17_Witness ==
    /\ NutritionCall
    /\ ~IsNone(ret.high_carb_recipes)
    /\ Len(Get(ret.high_carb_recipes)) = 2
    /\ Get(ret.high_carb_recipes)[1] = Get(ret.high_carb_recipes)[2]

\* The unscaled carbs decide the flag: a recipe at 50 g taken at two
\* portions is not listed, and one over 50 g is listed once per slot after it.
C17_UnscaledWitness ==
    /\ NutritionCall
    /\ Len(call.plan.slots) = 2
    /\ \A i \in DOMAIN call.plan.slots : call.plan.slots[i].day = call.day
    /\ call.plan.slots[1].recipe_id = "soupe"
    /\ "soupe" \in DOMAIN call.recipes
    /\ call.plan.slots[1].portions = 2
    /\ ret.high_carb_recipes = Some(<<"gratin">>)

(***************************************************************************)
(* Properties of _get_category.                                            *)
(***************************************************************************)
\* A label in lower case without the blanks around it: the characters
\* from the first to the last one that is no blank, each in lower case.
TrimmedLower(label) ==
    LET inked == { i \in DOMAIN label : label[i] \notin Whitespace }
    IN  IF inked = {} THEN <<>>
        ELSE LET first == CHOOSE i \in inked : \A j \in inked : i <= j
                 last == CHOOSE i \in inked : \A j \in inked : j <= i
             IN  [k \in 1..(last - first + 1) |->
                      CharLower(label[first + k - 1])]

\* C18: _get_category is total: it answers the category the static table
\* gives to the lower-cased, trimmed label, AUTRE when the table has no such
\* key, and never fails; labels that differ only in case or in the blanks
\* around them get the same category.
C18_CategoryLookupTotal ==
    call.op = "_get_category" =>
        LET key == TrimmedLower(call.category_str)
        IN  /\ \E k \in DOMAIN IngredientCategory : ret = IngredientCategory[k]
            /\ \A e \in CATEGORY_MAPPING : e[1] = key => ret = e[2]
            /\ (\A e \in CATEGORY_MAPPING : e[1] # key) => ret = "AUTRE"
            /\ \A other \in CategoryLabels :
                   TrimmedLower(other) = key => get_category(other) = ret

\* C18 happens: a label with capitals between blanks gets the category of
\* its key, which is not AUTRE.
C18_Witness ==
    /\ call.op = "_get_category"
    /\ Len(call.category_str) >= 2
    /\ call.category_str[1] \in Whitespace
    /\ call.category_str[Len(call.category_str)] \in Whitespace
    /\ \E i \in DOMAIN call.category_str :
           CharLower(call.category_str[i]) # call.category_str[i]
    /\ ret # "AUTRE"

(***************************************************************************)
(* Properties of get_seasonal_ingredients and of _format_quantity.        *)
(***************************************************************************)
\* C19: get_seasonal_ingredients raises ValueError exactly when the month
\* is outside 1..12 (0 and 13 raise); for a month of 1..12 it returns a
\* mapping with LEGUMES, FRUITS and HERBES, each of one ingredient or more.
C19_SeasonalMonthRange ==
    call.op = "get_seasonal_ingredients" =>
        /\ ret.raised = (call.month < 1 \/ call.month > 12)
        /\ ret.raised => ret.error = "ValueError" /\ IsNone(ret.value)
        /\ call.month \in {0, 13} => ret.raised
        /\ call.month \in 1..12 =>
               /\ ~ret.raised
               /\ ~IsNone(ret.value)
               /\ {"LEGUMES", "FRUITS", "HERBES"} \subseteq DOMAIN Get(ret.value)
               /\ \A category \in {"LEGUMES", "FRUITS", "HERBES"} :
                      Len(Get(ret.value)[category]) >= 1

\* C19 happens: december, the last month that does not raise, has
\* ingredients in the three categories.
C19_Witness ==
    /\ call.op = "get_seasonal_ingredients"
    /\ call.month = 12
    /\ ~ret.raised
    /\ \A category \in SeasonalCategory :
           Len(Get(ret.value)[category]) >= 1

\* The int that a string of decimal digits writes.
RECURSIVE DigitsValue(_)
DigitsValue(digits) ==
    IF digits = <<>> THEN 0
    ELSE 10 * DigitsValue(SubSeq(digits, 1, Len(digits) - 1))
         + (CHOOSE d \in 0..9 : Digits[d + 1] = digits[Len(digits)])

\* C20: _format_quantity writes a whole quantity as its integer, with no
\* decimal point, and a fractional one as an integer with no decimal point
\* at 0.5 at most from the quantity; 333.333 is written "333".
C20_QuantityWithoutDecimals ==
    call.op = "_format_quantity" =>
        LET quantity == call.quantity
            negative == ret # <<>> /\ ret[1] = "-"
            digits == IF negative THEN Tail(ret) ELSE ret
            value == IF negative THEN -DigitsValue(digits)
                     ELSE DigitsValue(digits)
        IN  /\ digits # <<>>
            /\ \A i \in DOMAIN digits :
                   \E d \in DOMAIN Digits : digits[i] = Digits[d]
            /\ quantity.den = 1 =>
                   /\ value = quantity.num
                   /\ negative = (quantity.num < 0)
                   /\ Len(digits) > 1 => digits[1] # "0"
            /\ quantity.den # 1 =>
                   Abs(2 * (value * quantity.den - quantity.num))
                       <= quantity.den
            /\ quantity = Rat(333333, 1000) => ret = <<"3", "3", "3">>

\* C20 happens: 333.333 is written "333".
C20_Witness ==
    /\ call.op = "_format_quantity"
    /\ call.quantity = Rat(333333, 1000)
    /\ ret = <<"3", "3", "3">>

(***************************************************************************)
(* Further properties of aggregate_ingredients and of GroceryList.         *)
(***************************************************************************)
\* Occurrence o comes before occurrence p in the traversal: slots in plan
\* order, ingredients in recipe order.
OccBefore(o, p) == o[1] < p[1] \/ (o[1] = p[1] /\ o[2] < p[2])

\* The first of the occurrences whose normalized name, given by the pairs
\* <<occurrence, normalized name>> of names, is that of the item.
FirstOccurrence(item, names) ==
    The({ CHOOSE o \in same : \A p \in same : p = o \/ OccBefore(o, p) :
              same \in { { pair[1] :
                              pair \in { q \in names : q[2] = normalized } } :
                          normalized \in {ItemNormalized(item)} } })

\* C21: an item carries the display name, the unit and the classified
\* category of the first non-excluded occurrence of its normalized name in
\* traversal order; later occurrences only add to total_quantity, even with
\* another unit or category label.
C21_FirstOccurrenceNames ==
    AggReturned =>
        \A names \in { { <<o, OccNormalized(o)>> : o \in KeptOccurrences } } :
            \A k \in DOMAIN ret.items :
                \A first \in { OccIngredient(
                                    FirstOccurrence(ret.items[k], names)) } :
                    /\ ret.items[k].ingredient_name = first.name
                    /\ ret.items[k].unit = first.unit
                    /\ ret.items[k].category = get_category(first.category)

\* C21 happens: an item merges two occurrences that differ in name, unit
\* and category, and shows those of the first.
C21_Witness ==
    /\ AggReturned
    /\ LET kept == KeptOccurrences
           names == { <<o, OccNormalized(o)>> : o \in kept }
       IN  \E k \in DOMAIN ret.items :
               LET item == ret.items[k]
                   first == FirstOccurrence(item, names)
               IN  \E o \in kept :
                       /\ OccBefore(first, o)
                       /\ OccNormalized(o) = ItemNormalized(item)
                       /\ OccIngredient(o).name # item.ingredient_name
                       /\ OccIngredient(o).unit # item.unit
                       /\ get_category(OccIngredient(o).category)
                              # item.category
                       /\ item.total_quantity =
                              RatAdd(OccScaled(first), OccScaled(o))

\* C22: by_category() neither sorts nor modifies the list: each bucket is
\* the items of its category in their order in GroceryList.items, the items
\* of the list after the call are those before it, and the keys are the
\* categories of one item or more (no empty bucket).
C22_ByCategoryKeepsOrder ==
    [][ByCategory =>
           LET items == ret.items
               buckets == ret'
           IN  /\ call'.self.items = items
               /\ DOMAIN buckets =
                      { items[k].category : k \in DOMAIN items }
               /\ \A c \in DOMAIN buckets :
                      /\ buckets[c] # <<>>
                      /\ buckets[c] =
                             SelectSeq(items,
                                       LAMBDA item : item.category = c)]_vars

\* C22 happens: a list that is not sorted by name has two items of one
\* category, which stand in its bucket in the order of the list.
C22_Witness ==
    /\ call.op = "by_category"
    /\ \E c \in DOMAIN ret :
           /\ Len(ret[c]) >= 2
           /\ StrLess(StrLower(ret[c][2].ingredient_name),
                      StrLower(ret[c][1].ingredient_name))
    /\ Cardinality(DOMAIN ret) >= 2

(***************************************************************************)
(* Properties of format_grocery_list.                                      *)
(***************************************************************************)
\* The lines of a text: the pieces between its line feeds.
RECURSIVE SplitLines(_)
SplitLines(text) ==
    IF \A i \in DOMAIN text : text[i] # "\n" THEN <<text>>
    ELSE LET k == CHOOSE i \in DOMAIN text :
                      text[i] = "\n" /\ \A j \in 1..(i - 1) : text[j] # "\n"
         IN  <<SubSeq(text, 1, k - 1)>>
                 \o SplitLines(SubSeq(text, k + 1, Len(text)))

\* A check-box line; the title line of a category; the footer.
IsItemLine(line) == line # <<>> /\ line[1] = "U+2610"

IsTitleLine(line) ==
    line # <<>> /\ \E c \in DOMAIN CATEGORY_EMOJIS : line[1] = CATEGORY_EMOJIS[c]

TitleCategory(line) ==
    CHOOSE c \in DOMAIN CATEGORY_EMOJIS : line[1] = CATEGORY_EMOJIS[c]

IsFooterLine(line) == line # <<>> /\ line[1] = "_Total: "

\* The category under whose title line i of lines stands.
SectionOfLine(lines, i) ==
    LET above == { j \in 1..(i - 1) : IsTitleLine(lines[j]) }
    IN  IF above = {} THEN "none"
        ELSE TitleCategory(
                 lines[CHOOSE j \in above : \A h \in above : h <= j])

\* C23: format_grocery_list writes every item of a non-empty list on one
\* check-box line exactly, under the title of its category; the titles
\* follow the order LEGUMES, FRUITS, PROTEINES, FRAIS, EPICERIE, BOISSONS,
\* SURGELES, AUTRE without the empty categories; the last line is a footer
\* whose count is the number of item lines.  An empty list gives the fixed
\* "Aucun article" message, with no footer.
C23_FormatGroceryList ==
    call.op = "format_grocery_list" =>
        LET items == call.grocery_list.items
            lines == SplitLines(ret)
            item_lines == { i \in DOMAIN lines : IsItemLine(lines[i]) }
            present == { items[k].category : k \in DOMAIN items }
            titles == SelectSeq(lines, IsTitleLine)
            fixed == <<"LEGUMES", "FRUITS", "PROTEINES", "FRAIS", "EPICERIE",
                       "BOISSONS", "SURGELES", "AUTRE">>
            expected == SelectSeq(fixed, LAMBDA c : c \in present)
            footer == lines[Len(lines)]
        IN  IF items = <<>>
            THEN /\ ret = <<"U+1F6D2", " ", "*Liste de courses*", "\n", "\n",
                            "_Aucun article_">>
                 /\ \A i \in DOMAIN lines : ~IsFooterLine(lines[i])
                 /\ item_lines = {}
            ELSE /\ Cardinality(item_lines) = Len(items)
                 /\ \A k \in DOMAIN items :
                        Cardinality(
                            { i \in item_lines :
                                  /\ lines[i] = format_item(items[k])
                                  /\ SectionOfLine(lines, i)
                                         = items[k].category })
                        = Cardinality(
                              { j \in DOMAIN items :
                                    /\ format_item(items[j])
                                           = format_item(items[k])
                                    /\ items[j].category = items[k].category })
                 /\ [k \in DOMAIN titles |-> TitleCategory(titles[k])]
                        = expected
                 /\ IsFooterLine(footer)
                 /\ \A i \in 1..(Len(lines) - 1) : ~IsFooterLine(lines[i])
                 /\ Len(footer) >= 3
                 /\ footer[Len(footer)] = " articles_"
                 /\ DigitsValue(SubSeq(footer, 2, Len(footer) - 1))
                        = Cardinality(item_lines)

\* C23 happens: a list of three items or more with items under FRAIS and
\* under EPICERIE is written with FRAIS first, and with a footer.
C23_Witness ==
    /\ call.op = "format_grocery_list"
    /\ Len(call.grocery_list.items) >= 3
    /\ LET lines == SplitLines(ret)
       IN  /\ \E i, j \in DOMAIN lines :
                  /\ i < j
                  /\ IsTitleLine(lines[i]) /\ IsTitleLine(lines[j])
                  /\ TitleCategory(lines[i]) = "FRAIS"
                  /\ TitleCategory(lines[j]) = "EPICERIE"
           /\ IsFooterLine(lines[Len(lines)])

\* The empty list is written as the fixed message.
C23_EmptyWitness ==
    /\ call.op = "format_grocery_list"
    /\ call.grocery_list.items = <<>>
    /\ ret[Len(ret)] = "_Aucun article_"

(***************************************************************************)
(* Properties of MealPlanGenerator.generate.                               *)
(***************************************************************************)
GenerateCall == call.op = "generate"

\* C24: generate with a month outside 1..12 fails with the ValueError of
\* the seasonal lookup while the prompt is built: no request is ever sent
\* to the API, and the error leaves generate uncaught.
C24_BadMonthFailsBeforeRequest ==
    (GenerateCall /\ (call.month < 1 \/ call.month > 12)) =>
        /\ call.requests = <<>>
        /\ call.pc \in {"_build_prompt", "raised"}
        /\ call.pc = "raised" =>
               ret = [raised |-> TRUE, error |-> "ValueError"]
        /\ IsNone(call.prompt)
        /\ IsNone(call.response)

\* C24 happens: generate with month 13 has raised ValueError with no
\* request sent.
C24_Witness ==
    /\ GenerateCall
    /\ call.month = 13
    /\ call.pc = "raised"
    /\ ret = [raised |-> TRUE, error |-> "ValueError"]
    /\ call.requests = <<>>

\* C25: generate with a valid month sends one request exactly, after the
\* prompt is built and before the response is parsed: none is sent while
\* the prompt is being built or is about to be sent, and from the call on
\* (parsing, returned, or raised by the call or by the parsing) the requests
\* are that one request, with the prompt built.
C25_ExactlyOneRequest ==
    (GenerateCall /\ call.month \in 1..12) =>
        /\ call.pc = "_build_prompt" =>
               call.requests = <<>> /\ IsNone(call.prompt)
        /\ call.pc = "_call_claude" =>
               call.requests = <<>> /\ ~IsNone(call.prompt)
        /\ call.pc \in {"_parse_response", "returned", "raised"} =>
               /\ ~IsNone(call.prompt)
               /\ call.requests = <<Get(call.prompt)>>
        /\ call.pc \in {"_parse_response", "returned"} =>
               ~IsNone(call.response)
        /\ call.pc = "raised" =>
               /\ ret.raised
               /\ ret.error \in {"APIError", "IndexError", "JSONDecodeError",
                                 "KeyError"}
               /\ ret.error \in {"APIError", "IndexError"}
                      <=> IsNone(call.response)

\* C25 happens: the parsing of the response has raised, after one request.
C25_Witness ==
    /\ GenerateCall
    /\ call.pc = "raised"
    /\ ret.error = "JSONDecodeError"
    /\ Len(call.requests) = 1

\* The call of the API has raised, after one request.
C25_ApiErrorWitness ==
    /\ GenerateCall
    /\ call.pc = "raised"
    /\ ret.error = "APIError"
    /\ Len(call.requests) = 1

\* generate has returned a plan and its recipes, after one request.
C25_ReturnedWitness ==
    /\ GenerateCall
    /\ call.pc = "returned"
    /\ Len(ret.value.recipes) = 2
    /\ ret.value.meal_plan.slots[1].portions = 1
    /\ Len(call.requests) = 1

(***************************************************************************)
(* Properties of two invocations at once.                                  *)
(***************************************************************************)
\* What the invocation of a frame returns when it runs alone.
RunAlone(frame) ==
    IF frame.op = "aggregate_ingredients"
    THEN aggregate_ingredients(frame.plan.slots, frame.recipes,
                               frame.exclude_pantry)
    ELSE validate_meal_plan_nutrition(frame.plan.slots, frame.recipes,
                                      frame.day)

Finished(p) == call[p].pc \in {"returned", "raised"}

\* C26: the invocations share no mutable state: a step of one leaves the
\* plan and the recipe table of every invocation as they were and touches
\* neither the frame, nor the accumulator, nor the result of the other, and
\* an invocation that has finished, however the steps were interleaved, has
\* the result it has when run alone.
C26_NoSharedState ==
    [][\A p \in Procs :
           /\ call'[p].plan = call[p].plan
           /\ call'[p].recipes = call[p].recipes
           /\ Step(p) =>
                  \A q \in Procs \ {p} :
                      /\ call'[q] = call[q]
                      /\ ret'.aggregated[q] = ret.aggregated[q]
                      /\ ret'.results[q] = ret.results[q]
           /\ call'[p].pc \in {"returned", "raised"} =>
                  ret'.results[p] = Some(RunAlone(call'[p]))]_vars

\* C26 happens: two aggregations of plans with common ingredient names are
\* both in their ingredient loops, each with entries in its accumulator.
C26_Witness ==
    /\ DOMAIN call = Procs
    /\ \A p \in Procs :
           /\ call[p].op = "aggregate_ingredients"
           /\ call[p].pc = "for ingredient"
           /\ ret.aggregated[p] # <<>>
    /\ call[1].plan # call[2].plan
    /\ \E k \in DOMAIN ret.aggregated[1], h \in DOMAIN ret.aggregated[2] :
           ret.aggregated[1][k].key = ret.aggregated[2][h].key

\* An aggregation and a validation have both returned.
C26_ReturnedWitness ==
    /\ DOMAIN call = Procs
    /\ call[1].op = "aggregate_ingredients"
    /\ call[2].op = "validate_meal_plan_nutrition"
    /\ \A p \in Procs : call[p].pc = "returned"
    /\ Len(Get(ret.results[1]).items) >= 2
    /\ ~IsNone(Get(ret.results[2]).high_carb_recipes)

\* No element stands twice in the sequence.
NoRepeat(seq) ==
    \A a, b \in DOMAIN seq : a # b => seq[a] # seq[b]

\* The ingredients <<i, j>> of the slots of a frame, among those at the
\* indices S, whose recipe is in the table.
IngredientsOfSlots(frame, S) ==
    UNION { { <<i, j>> :
                  j \in DOMAIN frame.recipes[frame.plan.slots[i].recipe_id]
                                   .ingredients } :
            i \in { i \in S : frame.plan.slots[i].recipe_id
                                  \in DOMAIN frame.recipes } }

Range(seq) == { seq[k] : k \in DOMAIN seq }

\* Every invocation of aggregate_ingredients finishes.
AggregateTerminates ==
    \A p \in Procs :
        (call[p].op = "aggregate_ingredients") ~> Finished(p)

\* C27 as stated: aggregate_ingredients completes, returning or raising,
\* after taking up each slot once and each ingredient of each resolved slot
\* once.
C27_AsStated ==
    /\ AggregateTerminates
    /\ [](\A p \in Procs :
              (call[p].op = "aggregate_ingredients" /\ Finished(p)) =>
                  /\ NoRepeat(call[p].slots_taken)
                  /\ Range(call[p].slots_taken) = DOMAIN call[p].plan.slots
                  /\ NoRepeat(call[p].ingredients_taken)
                  /\ Range(call[p].ingredients_taken) =
                         IngredientsOfSlots(call[p],
                                            DOMAIN call[p].plan.slots))

\* C27: aggregate_ingredients always completes and takes up no slot and no
\* ingredient twice.  When it returns it has taken up each slot once and
\* each ingredient of each resolved slot once; when it raises it has taken
\* up the slots up to the one whose recipe has zero servings, the
\* ingredients of the resolved slots before that one, and nothing after.
C27_TerminatesWithoutRepeat ==
    /\ AggregateTerminates
    /\ [](\A p \in Procs :
              call[p].op = "aggregate_ingredients" =>
                  LET frame == call[p]
                      slots == frame.plan.slots
                  IN  /\ NoRepeat(frame.slots_taken)
                      /\ NoRepeat(frame.ingredients_taken)
                      /\ frame.pc = "returned" =>
                             /\ Range(frame.slots_taken) = DOMAIN slots
                             /\ Range(frame.ingredients_taken) =
                                    IngredientsOfSlots(frame, DOMAIN slots)
                      /\ frame.pc = "raised" =>
                             LET k == frame.i
                             IN  /\ slots[k].recipe_id \in DOMAIN frame.recipes
                                 /\ frame.recipes[slots[k].recipe_id].servings
                                        = 0
                                 /\ Range(frame.slots_taken) = 1..k
                                 /\ Range(frame.ingredients_taken) =
                                        IngredientsOfSlots(frame, 1..(k - 1)))

\* C27 happens: an aggregation has raised at the second of three slots,
\* with the ingredients of the first taken up and the third slot untouched.
C27_Witness ==
    /\ DOMAIN call = Procs
    /\ \E p \in Procs :
           /\ call[p].op = "aggregate_ingredients"
           /\ call[p].pc = "raised"
           /\ Len(call[p].plan.slots) = 3
           /\ call[p].slots_taken = <<1, 2>>
           /\ call[p].ingredients_taken = <<<<1, 1>>, <<1, 2>>>>

\* An aggregation has returned with every slot and ingredient taken up.
C27_ReturnedWitness ==
    /\ DOMAIN call = Procs
    /\ \E p \in Procs :
           /\ call[p].op = "aggregate_ingredients"
           /\ call[p].pc = "returned"
           /\ call[p].slots_taken = <<1, 2>>
           /\ Len(call[p].ingredients_taken) = 8

(***************************************************************************)
(* The two settings of exclude_pantry.                                     *)
(***************************************************************************)
NotStaple(item) == ~is_pantry_staple(item.ingredient_name)

\* A returned list without the items whose name is a pantry staple.
WithoutStaples(list) ==
    [raised |-> list.raised, items |-> SelectSeq(list.items, NotStaple)]

\* What the call of the state returns with exclude_pantry set to the flag:
\* the return value itself for the flag of the call.
ListWithFlag(flag) ==
    IF call.exclude_pantry = flag THEN ret
    ELSE aggregate_ingredients(call.plan.slots, call.recipes, flag)

\* C29: for every plan and recipe table, the list returned with
\* exclude_pantry=true is the list returned with exclude_pantry=false
\* without the items whose name is a pantry staple: the other items are the
\* same, name, total_quantity, unit and category, in the same order (and
\* the one call raises iff the other does).
C29_ExcludePantryRemovesStapleItems ==
    AggCall => ListWithFlag(TRUE) = WithoutStaples(ListWithFlag(FALSE))

\* C29 happens: a call with exclude_pantry=true has returned several items,
\* one of them merged from two slots, and the same call with
\* exclude_pantry=false returns staple items besides.
C29_Witness ==
    /\ AggReturned
    /\ call.exclude_pantry
    /\ Len(ret.items) >= 2
    /\ Len(ListWithFlag(FALSE).items) >= Len(ret.items) + 2
    /\ \E o, p \in KeptOccurrences :
           o[1] # p[1] /\ OccNormalized(o) = OccNormalized(p)

(***************************************************************************)
(* Properties of ValidationResult.                                         *)
(***************************************************************************)
RatMin(a, b) == IF RatLeq(a, b) THEN a ELSE b

ProteinCall == call.op = "validate_daily_protein"

CarbsCall == call.op = "validate_daily_carbs"

\* C30: every ValidationResult is consistent.  Of validate_daily_protein:
\* deficit >= 0, is_valid iff deficit = 0, total + deficit = max(total, 60)
\* and excess = 0.  Of validate_daily_carbs: excess >= 0, is_valid iff
\* excess = 0, total - excess = min(total, 150) and deficit = 0.
C30_ValidationResultConsistent ==
    /\ ProteinCall =>
           /\ RatLeq(Int2Rat(0), ret.deficit)
           /\ ret.is_valid <=> (ret.deficit = Int2Rat(0))
           /\ RatAdd(ret.total, ret.deficit) =
                  RatMax(ret.total, DAILY_PROTEIN_MIN_G)
           /\ ret.excess = Int2Rat(0)
    /\ CarbsCall =>
           /\ RatLeq(Int2Rat(0), ret.excess)
           /\ ret.is_valid <=> (ret.excess = Int2Rat(0))
           /\ RatSub(ret.total, ret.excess) =
                  RatMin(ret.total, DAILY_CARBS_MAX_G)
           /\ ret.deficit = Int2Rat(0)

\* C30 happens: a protein result with a deficit.
C30_Witness ==
    /\ ProteinCall
    /\ Len(call.daily_macros) >= 2
    /\ RatLess(Int2Rat(0), ret.deficit)
    /\ ~ret.is_valid

\* A carbs result with an excess, and a protein result over the minimum.
C30_ExcessWitness ==
    /\ CarbsCall
    /\ RatLess(Int2Rat(0), ret.excess)
    /\ ~ret.is_valid

C30_ValidWitness ==
    /\ ProteinCall
    /\ RatLess(DAILY_PROTEIN_MIN_G, ret.total)
    /\ ret.is_valid

(***************************************************************************)
(* The totals of a plan and of the same slots in another order.            *)
(***************************************************************************)
\* The total of each normalized name of a list.
TotalsOf(list) ==
    { <<ItemNormalized(item), item.total_quantity>> :
          item \in Range(list.items) }

NamesOf(list) == { ItemNormalized(item) : item \in Range(list.items) }

\* The total of the item of a normalized name.
TotalOf(list, normalized) ==
    (CHOOSE item \in Range(list.items) :
         ItemNormalized(item) = normalized).total_quantity

\* a <= b on the bits of two natural numbers.
BitsLeq(a, b) ==
    IF Len(a) # Len(b) THEN Len(a) < Len(b)
    ELSE \/ a = b
         \/ \E i \in DOMAIN a :
                /\ a[i] < b[i]
                /\ \A j \in (i + 1)..Len(a) : a[j] = b[j]

Min(S) == CHOOSE x \in S : \A y \in S : x <= y

Max(S) == CHOOSE x \in S : \A y \in S : y <= x

\* Two floats > 0 are at most k units in the last place of the greater
\* apart.
WithinUlps(x, y, k) ==
    LET ulp == Max({x.e + Len(x.m), y.e + Len(y.m)}) - MantissaBits
        e == Min({x.e, y.e, ulp})
        xs == Zeros(x.e - e) \o x.m
        ys == Zeros(y.e - e) \o y.m
        margin == BitsMul(Zeros(ulp - e) \o <<1>>, BitsOfNat(k))
    IN  /\ BitsLeq(xs, BitsAdd(ys, margin))
        /\ BitsLeq(ys, BitsAdd(xs, margin))

ReorderedCall == call.op = "aggregate_ingredients" /\ "reordered" \in DOMAIN call

\* The kept occurrences of a normalized name in the plan.
OccurrencesOf(normalized) ==
    { o \in KeptOccurrences : OccNormalized(o) = normalized }

\* C28 as stated: for any permutation of plan.slots the returned list has
\* the same normalized names and the same total_quantity for each name.
C28_AsStated ==
    ReorderedCall => TotalsOf(ret.first) = TotalsOf(ret.second)

\* C28: for any permutation of plan.slots the returned list has the same
\* normalized names; the total_quantity of a name with at most two
\* occurrences is the same, and the totals of a name with more occurrences
\* are equal up to the rounding of the float additions: at most two units
\* in the last place apart per occurrence.
C28_TotalsUpToRounding ==
    ReorderedCall =>
        LET names == { <<o, OccNormalized(o)>> : o \in KeptOccurrences }
        IN
        /\ NamesOf(ret.first) = NamesOf(ret.second)
        /\ \A normalized \in NamesOf(ret.first) :
               LET n == Cardinality({ o \in names : o[2] = normalized })
                   x == TotalOf(ret.first, normalized)
                   y == TotalOf(ret.second, normalized)
               IN  /\ n <= 2 => x = y
                   /\ x = y \/ WithinUlps(x, y, 2 * n)

\* C28 happens: "riz" of three slots has two different totals in the two
\* orders, while the names are the same.
C28_Witness ==
    /\ ReorderedCall
    /\ call.plan.slots # call.reordered.slots
    /\ \E normalized \in NamesOf(ret.first) :
           /\ Cardinality(OccurrencesOf(normalized)) = 3
           /\ TotalOf(ret.first, normalized) # TotalOf(ret.second, normalized)

\* A name of two occurrences, from two different recipes, whose total is
\* rounded and is the same in both orders.
C28_EqualWitness ==
    /\ ReorderedCall
    /\ call.plan.slots # call.reordered.slots
    /\ \E normalized \in NamesOf(ret.first) :
           /\ Cardinality(OccurrencesOf(normalized)) = 2
           /\ Len(TotalOf(ret.first, normalized).m) > 40
           /\ TotalOf(ret.first, normalized) = TotalOf(ret.second, normalized)

====
